---- MODULE Spec2Model ----
(***************************************************************************)
(* Field pipeline of agent-tools: the field schema cache, the field name   *)
(* resolver, the value formatter, the value validator and the             *)
(* processCustomFields driver.                                             *)
(*                                                                         *)
(* JavaScript strings are sequences of one-character strings, so that      *)
(* toLowerCase, trim, split, indexOf, the cache key concatenation and the   *)
(* Levenshtein distance are computed as the code computes them.            *)
(* JavaScript values are tagged records:                                   *)
(*   [t |-> "str", s |-> <chars>]     a string                             *)
(*   [t |-> "num", n |-> <integer>]   a number (integers only)             *)
(*   [t |-> "nan"]                    the number NaN                       *)
(*   [t |-> "bool", b |-> <boolean>]  true and false                       *)
(*   [t |-> "null"], [t |-> "undef"]  null and undefined                   *)
(*   [t |-> "obj", o |-> <record of values>]   an object                   *)
(*   [t |-> "arr", a |-> <sequence of values>] an array                    *)
(* Messages (descriptions, errors) are sequences of text chunks.           *)
(* An absent optional string property (AllowedValue.value, schema.items,   *)
(* schema.custom) is the empty sequence: the code tests these properties   *)
(* by truthiness only, and the empty string is falsy like undefined.       *)
(***************************************************************************)
EXTENDS Integers, Sequences, FiniteSets, TLC

VARIABLES
    fieldMetadataCache, \* field-resolver.ts:43 cache key -> field map
    providerCalls,      \* number of client.getCreateMeta calls made so far
    fetchedOk,          \* history: the pairs fetched successfully since the last clear
    last,               \* the last completed cache operation and what it returned
    pc,                 \* position of the running operation
    input,              \* the arguments of the running operation
    run                 \* the locals and the result of the running operation

vars == <<fieldMetadataCache, providerCalls, fetchedOk, last, pc, input, run>>

cacheVars == <<fieldMetadataCache, providerCalls, fetchedOk, last>>

----------------------------------------------------------------------------
(* Bounds of the model *)

\* provider invocations one behaviour may make
MaxCalls == 3

\* names in one resolveFieldNames batch
MaxBatch == 2

----------------------------------------------------------------------------
(* JavaScript string primitives *)

UpperChars == <<"A","B","C","D","E","F","G","H","I","J","K","L","M",
                "N","O","P","Q","R","S","T","U","V","W","X","Y","Z">>

LowerChars == <<"a","b","c","d","e","f","g","h","i","j","k","l","m",
                "n","o","p","q","r","s","t","u","v","w","x","y","z">>

DigitChars == <<"0","1","2","3","4","5","6","7","8","9">>

Min(a, b) == IF a <= b THEN a ELSE b

Max(a, b) == IF a >= b THEN a ELSE b

\* Math.ceil(n * 0.5) for a length n
CeilHalf(n) == (n + 1) \div 2

LowerChar(c) ==
    IF \E i \in 1..26 : UpperChars[i] = c
    THEN LowerChars[CHOOSE i \in 1..26 : UpperChars[i] = c]
    ELSE c

UpperChar(c) ==
    IF \E i \in 1..26 : LowerChars[i] = c
    THEN UpperChars[CHOOSE i \in 1..26 : LowerChars[i] = c]
    ELSE c

toLowerCase(s) == [i \in 1..Len(s) |-> LowerChar(s[i])]

toUpperCase(s) == [i \in 1..Len(s) |-> UpperChar(s[i])]

IsDigit(c) == \E i \in 1..10 : DigitChars[i] = c

DigitValue(c) == (CHOOSE i \in 1..10 : DigitChars[i] = c) - 1

\* white space: a blank, a line break, a tab
IsSpace(c) == c \in {" ", "\n", "\t"}

\* String.prototype.trim
trim(s) ==
    IF \A i \in 1..Len(s) : IsSpace(s[i]) THEN <<>>
    ELSE LET first == CHOOSE i \in 1..Len(s) :
                          ~IsSpace(s[i]) /\ \A j \in 1..(i-1) : IsSpace(s[j])
             lastI == CHOOSE i \in 1..Len(s) :
                          ~IsSpace(s[i]) /\ \A j \in (i+1)..Len(s) : IsSpace(s[j])
         IN  SubSeq(s, first, lastI)

\* String.prototype.indexOf for one character, 0-based, -1 when absent
indexOf(s, c) ==
    IF \E i \in 1..Len(s) : s[i] = c
    THEN (CHOOSE i \in 1..Len(s) : s[i] = c /\ \A j \in 1..(i-1) : s[j] # c) - 1
    ELSE -1

\* String.prototype.startsWith
startsWith(s, p) == Len(s) >= Len(p) /\ SubSeq(s, 1, Len(p)) = p

\* String.prototype.split for a one-character separator
RECURSIVE split(_, _)
split(s, c) ==
    LET i == indexOf(s, c)
    IN  IF i = -1 THEN <<s>>
        ELSE <<SubSeq(s, 1, i)>> \o split(SubSeq(s, i + 2, Len(s)), c)

\* Array.prototype.join
RECURSIVE join(_, _)
join(parts, sep) ==
    IF Len(parts) = 0 THEN <<>>
    ELSE IF Len(parts) = 1 THEN parts[1]
    ELSE parts[1] \o sep \o join(Tail(parts), sep)

\* Array.prototype.filter on indices: the members of ok among 1..n, ascending
SelectIdx(n, ok) ==
    LET S == {k \in 1..n : k \in ok}
    IN  [r \in 1..Cardinality(S) |->
            CHOOSE k \in S : Cardinality({j \in S : j < k}) = r - 1]

----------------------------------------------------------------------------
(* String literals of the code and of the inputs *)

Colon == <<":">>

Comma == <<",">>

Customfield_ == <<"c","u","s","t","o","m","f","i","e","l","d","_">>

Zero == <<"0">>

One == <<"1">>

Two == <<"2">>

Five == <<"5">>

Summary == <<"s","u","m","m","a","r","y">>

Priority == <<"p","r","i","o","r","i","t","y">>

\* field-resolver.ts:177-197, the standard Jira fields
StandardFields ==
    { Summary,
      <<"d","e","s","c","r","i","p","t","i","o","n">>,
      <<"a","s","s","i","g","n","e","e">>,
      <<"r","e","p","o","r","t","e","r">>,
      Priority,
      <<"s","t","a","t","u","s">>,
      <<"l","a","b","e","l","s">>,
      <<"c","o","m","p","o","n","e","n","t","s">>,
      <<"f","i","x","V","e","r","s","i","o","n","s">>,
      <<"v","e","r","s","i","o","n","s">>,
      <<"i","s","s","u","e","t","y","p","e">>,
      <<"p","r","o","j","e","c","t">>,
      <<"p","a","r","e","n","t">>,
      <<"d","u","e","d","a","t","e">>,
      <<"e","n","v","i","r","o","n","m","e","n","t">>,
      <<"r","e","s","o","l","u","t","i","o","n">>,
      <<"r","e","s","o","l","u","t","i","o","n","d","a","t","e">>,
      <<"c","r","e","a","t","e","d">>,
      <<"u","p","d","a","t","e","d">> }

\* display names, values and user input
Severity == <<"S","e","v","e","r","i","t","y">>

SeverityLc == <<"s","e","v","e","r","i","t","y">>

SEVERITY == <<"S","E","V","E","R","I","T","Y">>

Sevrity == <<"S","e","v","r","i","t","y">>

Points == <<"P","o","i","n","t","s">>

Teams == <<"T","e","a","m","s">>

Watchers == <<"W","a","t","c","h","e","r","s">>

SummaryName == <<"S","u","m","m","a","r","y">>

PriorityName == <<"P","r","i","o","r","i","t","y">>

Zone == <<"Z","o","n","e">>

Qq == <<"Q","q">>

High == <<"H","i","g","h">>

HighLc == <<"h","i","g","h">>

Low == <<"L","o","w">>

Minor == <<"M","i","n","o","r">>

MINOR == <<"M","I","N","O","R">>

Top == <<"T","o","p">>

X9 == <<"x","9">>

X9Uc == <<"X","9">>

Bad == <<"B","a","d">>

Core == <<"C","o","r","e">>

Web == <<"W","e","b">>

Abc == <<"a","b","c">>

\* schema type names
TOption == <<"o","p","t","i","o","n">>

TString == <<"s","t","r","i","n","g">>

TArray == <<"a","r","r","a","y">>

TNumber == <<"n","u","m","b","e","r">>

TUser == <<"u","s","e","r">>

TUnknown == <<"u","n","k","n","o","w","n">>

\* project keys and issue type names
ProjP == <<"P">>

ProjPLc == <<"p">>

ProjPX == <<"P",":","X">>

Bug == <<"B","u","g">>

BugLc == <<"b","u","g">>

TypeXY == <<"X",":","Y">>

TypeY == <<"Y">>

Task == <<"T","a","s","k">>

----------------------------------------------------------------------------
(* The schema provider's answer: client.getCreateMeta(projectKey).         *)
(* issuetypes[i].fields is an object; Object.entries lists it in insertion *)
(* order, so it is the sequence of its [key, meta] entries.                *)

Cf(digits) == Customfield_ \o digits

AV(id, name, value) == [id |-> id, name |-> name, value |-> value]

Meta(name, type, items, allowed) ==
    [ name |-> name, required |-> FALSE,
      schema |-> [type |-> type, items |-> items, custom |-> <<>>],
      allowedValues |-> allowed ]

SeverityAllowed ==
    << AV(One, High, <<>>), AV(Two, Low, Minor), AV(X9, Top, <<>>) >>

TeamsAllowed == << AV(<<"7">>, Core, Core), AV(<<"8">>, Web, Web) >>

PriorityAllowed == << AV(One, High, <<>>), AV(Two, Low, <<>>) >>

BugFields ==
    << [key |-> Cf(<<"1","0">>), meta |-> Meta(Severity, TOption, <<>>, SeverityAllowed)],
       [key |-> Cf(<<"1","1">>), meta |-> Meta(Points, TNumber, <<>>, <<>>)],
       [key |-> Cf(<<"1","2">>), meta |-> Meta(Teams, TArray, TOption, TeamsAllowed)],
       [key |-> Cf(<<"1","3">>), meta |-> Meta(Watchers, TArray, TUser, <<>>)],
       [key |-> Cf(<<"1","4">>), meta |-> Meta(SeverityLc, TString, <<>>, <<>>)],
       [key |-> Summary,         meta |-> Meta(SummaryName, TString, <<>>, <<>>)],
       [key |-> Priority,        meta |-> Meta(PriorityName, Priority, <<>>, PriorityAllowed)] >>

XYFields ==
    << [key |-> Cf(<<"2","0">>), meta |-> Meta(Zone, TString, <<>>, <<>>)] >>

CreateMeta ==
    [ projects |->
        << [ key |-> ProjP,
             issuetypes |-> << [name |-> Bug, fields |-> BugFields],
                               [name |-> TypeXY, fields |-> XYFields] >> ] >> ]

\* what a getCreateMeta call does: it throws, or it answers
ProviderThrows == [throws |-> TRUE]

ProviderAnswers == {ProviderThrows, CreateMeta}

----------------------------------------------------------------------------
(* field-resolver.ts: Levenshtein distance and suggestions *)

Min3(a, b, c) == Min(a, Min(b, c))

\* A sequence written as a function, as the tuple of its elements
Tuple(f) == f \o <<>>

\* cells 0..j of row i of the matrix (line 70-82); prev is row i-1.
\* The cells to the left are computed once, then cell j is appended.
RECURSIVE FillRow(_, _, _, _, _)
FillRow(prev, a, ch, i, j) ==
    IF j = 0 THEN <<i>>
    ELSE CHOOSE row \in
             { Append(left,
                      IF ch = a[j] THEN prev[j]
                      ELSE Min3(prev[j] + 1, left[j] + 1, prev[j + 1] + 1)) :
               left \in {FillRow(prev, a, ch, i, j - 1)} } : TRUE

\* row i of the matrix; row 0 is matrix[0][j] = j (line 65-67).
\* Row i-1 is computed once, then row i is filled from it.
RECURSIVE MatrixRow(_, _, _)
MatrixRow(a, b, i) ==
    IF i = 0 THEN Tuple([j \in 1..(Len(a) + 1) |-> j - 1])
    ELSE CHOOSE row \in
             { FillRow(prev, a, b[i], i, Len(a)) :
               prev \in {MatrixRow(a, b, i - 1)} } : TRUE

levenshteinDistance(a, b) == MatrixRow(a, b, Len(b))[Len(a) + 1]

\* Array.prototype.sort((x, y) => x.distance - y.distance), which is stable:
\* an element goes after every element of smaller distance and after the
\* earlier elements of equal distance
SortByDistance(cands) ==
    LET rank(k) == Cardinality({j \in 1..Len(cands) :
                       \/ cands[j].distance < cands[k].distance
                       \/ cands[j].distance = cands[k].distance /\ j < k}) + 1
    IN  [r \in 1..Len(cands) |-> cands[CHOOSE k \in 1..Len(cands) : rank(k) = r]]

\* Array.prototype.slice(0, n)
slice0(s, n) == SubSeq(s, 1, Min(n, Len(s)))

\* default of the maxSuggestions parameter
MaxSuggestions == 3

\* the least distance that is always accepted
MinThreshold == 3

SuggestionThreshold(name) == Max(MinThreshold, CeilHalf(Len(name)))

\* line 98-106: the candidates, in the order of the field map
Candidates(name, fields) ==
    LET nameLower == toLowerCase(name)
        scored == Tuple([k \in 1..Len(fields) |->
                     [name |-> fields[k].name,
                      distance |-> levenshteinDistance(nameLower,
                                                       toLowerCase(fields[k].name))]])
        close(sc) == SelectIdx(Len(sc), {k \in 1..Len(sc) :
                                   sc[k].distance <= SuggestionThreshold(name)})
    IN  CHOOSE cands \in
            { Tuple([q \in 1..Len(idx) |-> sc[idx[q]]]) :
              <<sc, idx>> \in {<<s, close(s)>> : s \in {scored}} } : TRUE

\* faulty variant of findSimilarFieldNames: the candidates are not sorted
findSimilarFieldNames_Unsorted(name, fields) ==
    CHOOSE names \in
        { Tuple([z \in 1..Len(sorted) |-> sorted[z].name]) :
          sorted \in { Tuple(slice0(cands, MaxSuggestions)) :
                       cands \in {Candidates(name, fields)} } } : TRUE

findSimilarFieldNames(name, fields) ==
    CHOOSE names \in
        { Tuple([z \in 1..Len(sorted) |-> sorted[z].name]) :
          sorted \in { Tuple(slice0(SortByDistance(cands), MaxSuggestions)) :
                       cands \in {Candidates(name, fields)} } } : TRUE

----------------------------------------------------------------------------
(* field-resolver.ts: the field schema cache *)

getCacheKey(projectKey, issueType) == projectKey \o Colon \o issueType

\* Array.prototype.find: the first index satisfying the test, 0 when none
FirstIdx(n, ok) ==
    IF \E k \in 1..n : k \in ok
    THEN CHOOSE k \in 1..n : k \in ok /\ \A j \in 1..(k - 1) : j \notin ok
    ELSE 0

NoError == [kind |-> "none", projectKey |-> <<>>, issueType |-> <<>>, available |-> <<>>]

ProviderError == [kind |-> "provider", projectKey |-> <<>>, issueType |-> <<>>, available |-> <<>>]

ProjectNotFound(projectKey) ==
    [kind |-> "projectNotFound", projectKey |-> projectKey, issueType |-> <<>>,
     available |-> <<>>]

IssueTypeNotFound(projectKey, issueType, names) ==
    [kind |-> "issueTypeNotFound", projectKey |-> projectKey, issueType |-> issueType,
     available |-> join(names, <<",", " ">>)]

\* line 160-163: fieldMap.set(key, { ...meta, key }) for every entry
BuildFieldMap(fields) == [k \in 1..Len(fields) |-> [key |-> fields[k].key] @@ fields[k].meta]

\* faulty variant of fetchFieldMetadata: the cache entry is written before the
\* project and the issue type are looked up
fetchFieldMetadata_CacheFirst(cache, answer, projectKey, issueType) ==
    LET cacheKey == getCacheKey(projectKey, issueType)
        failed(err) == [ok |-> FALSE, fields |-> <<>>, error |-> err,
                        invoked |-> TRUE, cache |-> (cacheKey :> <<>>) @@ cache]
    IN  IF cacheKey \in DOMAIN cache
        THEN [ok |-> TRUE, fields |-> cache[cacheKey], error |-> NoError,
              invoked |-> FALSE, cache |-> cache]
        ELSE IF answer = ProviderThrows THEN failed(ProviderError)
        ELSE
        LET projects == answer.projects
            p == FirstIdx(Len(projects),
                     {k \in 1..Len(projects) :
                         toUpperCase(projects[k].key) = toUpperCase(projectKey)})
        IN  IF p = 0 THEN failed(ProjectNotFound(projectKey))
            ELSE
            LET types == projects[p].issuetypes
                it == FirstIdx(Len(types),
                          {k \in 1..Len(types) :
                              toLowerCase(types[k].name) = toLowerCase(issueType)})
            IN  IF it = 0
                THEN failed(IssueTypeNotFound(projectKey, issueType,
                                [k \in 1..Len(types) |-> types[k].name]))
                ELSE
                LET fieldMap == BuildFieldMap(types[it].fields)
                IN  [ok |-> TRUE, fields |-> fieldMap, error |-> NoError,
                     invoked |-> TRUE,
                     cache |-> (cacheKey :> fieldMap) @@ cache]

\* The call fetchFieldMetadata(client, projectKey, issueType) on the cache `cache`,
\* where `answer` is what client.getCreateMeta does if it is called.
\* ok: the call returned `fields`; otherwise it threw `error`.
\* invoked: client.getCreateMeta was called.  cache: the cache after the call.
fetchFieldMetadata(cache, answer, projectKey, issueType) ==
    LET cacheKey == getCacheKey(projectKey, issueType)
        failed(err) == [ok |-> FALSE, fields |-> <<>>, error |-> err,
                        invoked |-> TRUE, cache |-> cache]
    IN  IF cacheKey \in DOMAIN cache
        THEN [ok |-> TRUE, fields |-> cache[cacheKey], error |-> NoError,
              invoked |-> FALSE, cache |-> cache]
        ELSE IF answer = ProviderThrows THEN failed(ProviderError)
        ELSE
        LET projects == answer.projects
            p == FirstIdx(Len(projects),
                     {k \in 1..Len(projects) :
                         toUpperCase(projects[k].key) = toUpperCase(projectKey)})
        IN  IF p = 0 THEN failed(ProjectNotFound(projectKey))
            ELSE
            LET types == projects[p].issuetypes
                it == FirstIdx(Len(types),
                          {k \in 1..Len(types) :
                              toLowerCase(types[k].name) = toLowerCase(issueType)})
            IN  IF it = 0
                THEN failed(IssueTypeNotFound(projectKey, issueType,
                                [k \in 1..Len(types) |-> types[k].name]))
                ELSE
                LET fieldMap == BuildFieldMap(types[it].fields)
                IN  [ok |-> TRUE, fields |-> fieldMap, error |-> NoError,
                     invoked |-> TRUE,
                     cache |-> (cacheKey :> fieldMap) @@ cache]

\* fieldMetadataCache.clear()
clearFieldMetadataCache(cache) == <<>>

----------------------------------------------------------------------------
(* field-resolver.ts: the field name resolver *)

\* /^customfield_\d+$/.test(name) || [...].includes(name)
isInternalFieldId(name) ==
    \/ /\ startsWith(name, Customfield_)
       /\ Len(name) > Len(Customfield_)
       /\ \A i \in (Len(Customfield_) + 1)..Len(name) : IsDigit(name[i])
    \/ name \in StandardFields

NoResolved == [originalName |-> <<>>, key |-> <<>>, displayName |-> <<>>, type |-> <<>>,
               isCustom |-> FALSE, metadata |-> <<>>]

\* line 238-243 and 256-261: the metadata of an id that has no schema entry
UnknownMeta(fieldName) ==
    [ key |-> fieldName, name |-> fieldName, required |-> FALSE,
      schema |-> [type |-> TUnknown, items |-> <<>>, custom |-> <<>>],
      allowedValues |-> <<>> ]

ResolvedFrom(fieldName, key, meta) ==
    [ originalName |-> fieldName, key |-> key, displayName |-> meta.name,
      type |-> meta.schema.type, isCustom |-> startsWith(key, Customfield_),
      metadata |-> meta ]

ResolveOk(resolved) ==
    [success |-> TRUE, resolved |-> resolved, error |-> NoError, suggestions |-> <<>>]

FieldNotFound(fieldName, projectKey, issueType) ==
    [kind |-> "fieldNotFound", projectKey |-> projectKey, issueType |-> issueType,
     available |-> fieldName]

ResolveFail(err, suggestions) ==
    [success |-> FALSE, resolved |-> NoResolved, error |-> err, suggestions |-> suggestions]

\* faulty variant of ResolveInternal: the fetch error is not caught
ResolveInternal_NoCatch(f, fieldName) ==
    LET byKey == FirstIdx(Len(f.fields),
                     {k \in 1..Len(f.fields) : f.fields[k].key = fieldName})
    IN  IF ~f.ok THEN ResolveFail(f.error, <<>>)
        ELSE IF byKey # 0
        THEN ResolveOk(ResolvedFrom(fieldName, fieldName, f.fields[byKey]))
        ELSE ResolveOk(ResolvedFrom(fieldName, fieldName, UnknownMeta(fieldName)))

\* line 211-265: a name that is already an internal id; f is the fetch made for it
ResolveInternal(f, fieldName) ==
    LET byKey == FirstIdx(Len(f.fields),
                     {k \in 1..Len(f.fields) : f.fields[k].key = fieldName})
    IN  IF f.ok /\ byKey # 0
        THEN ResolveOk(ResolvedFrom(fieldName, fieldName, f.fields[byKey]))
        ELSE ResolveOk(ResolvedFrom(fieldName, fieldName, UnknownMeta(fieldName)))

\* faulty variant of ResolveByName: display names are compared case-sensitively
ResolveByName_CaseSensitive(f, projectKey, issueType, fieldName) ==
    LET byName == FirstIdx(Len(f.fields),
                      {k \in 1..Len(f.fields) : f.fields[k].name = fieldName})
    IN  IF ~f.ok THEN ResolveFail(f.error, <<>>)
        ELSE IF byName # 0
        THEN ResolveOk(ResolvedFrom(fieldName, f.fields[byName].key, f.fields[byName]))
        ELSE ResolveFail(FieldNotFound(fieldName, projectKey, issueType),
                         findSimilarFieldNames(fieldName, f.fields))

\* line 267-308: any other name is looked up by display name
ResolveByName(f, projectKey, issueType, fieldName) ==
    LET fieldNameLower == toLowerCase(fieldName)
        byName == FirstIdx(Len(f.fields),
                      {k \in 1..Len(f.fields) :
                          toLowerCase(f.fields[k].name) = fieldNameLower})
    IN  IF ~f.ok THEN ResolveFail(f.error, <<>>)
        ELSE IF byName # 0
        THEN ResolveOk(ResolvedFrom(fieldName, f.fields[byName].key, f.fields[byName]))
        ELSE ResolveFail(FieldNotFound(fieldName, projectKey, issueType),
                         findSimilarFieldNames(fieldName, f.fields))

\* The call resolveFieldName(client, projectKey, issueType, fieldName): its result
\* and the fetch it made (for the cache after the call and the provider call).
resolveFieldName(cache, answer, projectKey, issueType, fieldName) ==
    CHOOSE res \in
        { [ result |-> IF isInternalFieldId(fieldName)
                       THEN ResolveInternal(f, fieldName)
                       ELSE ResolveByName(f, projectKey, issueType, fieldName),
            fetch |-> f ] :
          f \in {fetchFieldMetadata(cache, answer, projectKey, issueType)} } : TRUE

----------------------------------------------------------------------------
(* The cache as a state machine: fetchFieldMetadata and                    *)
(* clearFieldMetadataCache called one after another.                       *)

ProjectKeys == {ProjP, ProjPLc, ProjPX}

IssueTypes == {Bug, TypeXY, TypeY, Task}

\* no getCreateMeta call was made
NoAnswer == [none |-> TRUE]

NoOp == [op |-> "none", projectKey |-> <<>>, issueType |-> <<>>, invoked |-> FALSE,
         answer |-> NoAnswer,
         wasFetched |-> FALSE, prior |-> <<>>, ok |-> FALSE, fields |-> <<>>,
         error |-> NoError]

Idle == /\ pc = "idle"
        /\ input = <<>>
        /\ run = <<>>

InitCache ==
    /\ fieldMetadataCache = <<>>
    /\ providerCalls = 0
    /\ fetchedOk = <<>>
    /\ last = NoOp
    /\ Idle

Fetch(projectKey, issueType, answer) ==
    LET f == fetchFieldMetadata(fieldMetadataCache, answer, projectKey, issueType)
        pair == <<projectKey, issueType>>
        calls == providerCalls + (IF f.invoked THEN 1 ELSE 0)
    IN  /\ calls <= MaxCalls
        /\ fieldMetadataCache' = f.cache
        /\ providerCalls' = calls
        /\ fetchedOk' = IF f.ok /\ pair \notin DOMAIN fetchedOk
                        THEN (pair :> f.fields) @@ fetchedOk
                        ELSE fetchedOk
        /\ last' = [op |-> "fetch", projectKey |-> projectKey, issueType |-> issueType,
                    invoked |-> f.invoked,
                    answer |-> IF f.invoked THEN answer ELSE NoAnswer,
                    wasFetched |-> pair \in DOMAIN fetchedOk,
                    prior |-> IF pair \in DOMAIN fetchedOk THEN fetchedOk[pair] ELSE <<>>,
                    ok |-> f.ok, fields |-> f.fields, error |-> f.error]
        /\ UNCHANGED <<pc, input, run>>

Clear ==
    /\ fieldMetadataCache' = clearFieldMetadataCache(fieldMetadataCache)
    /\ fetchedOk' = <<>>
    /\ last' = [NoOp EXCEPT !.op = "clear"]
    /\ UNCHANGED <<providerCalls, pc, input, run>>

NextCache ==
    \/ \E projectKey \in ProjectKeys, issueType \in IssueTypes, answer \in ProviderAnswers :
           Fetch(projectKey, issueType, answer)
    \/ Clear

SpecCache == InitCache /\ [][NextCache]_vars

\* C2 (as claimed): a fetch invokes the provider if and only if its pair has not
\* been fetched successfully since the last clear, and a repeated fetch returns
\* the field map the first one returned.
C2_InvokesIffNotFetched ==
    last.op = "fetch" =>
        /\ last.invoked <=> ~last.wasFetched
        /\ last.wasFetched => last.ok /\ last.fields = last.prior

\* C2 restricted to the pairs whose cache key no other requested pair shares
C2_NoCollision ==
    (/\ last.op = "fetch"
     /\ \A p \in ProjectKeys, t \in IssueTypes :
            getCacheKey(p, t) = getCacheKey(last.projectKey, last.issueType)
                => p = last.projectKey /\ t = last.issueType)
    => /\ last.invoked <=> ~last.wasFetched
       /\ last.wasFetched => last.ok /\ last.fields = last.prior

----------------------------------------------------------------------------
(* field-resolver.ts: resolveFieldNames as a state machine, one            *)
(* `await resolveFieldName(...)` per step.                                  *)

Status == <<"s","t","a","t","u","s">>

Prority == <<"P","r","o","r","i","t","y">>

Cf10 == Cf(<<"1","0">>)

Cf14 == Cf(<<"1","4">>)

Cf99 == Cf(<<"9","9">>)

\* names a user may type
FieldNames == {Cf10, Cf99, Summary, Status, SEVERITY, Sevrity, Prority, Qq}

\* (project key, issue type) pairs a batch may be resolved for
ResolvePairs == {<<ProjP, Bug>>, <<ProjP, Task>>, <<ProjPX, TypeY>>}

Seqs(S, n) == UNION {[1..k -> S] : k \in 0..n}

\* line 322-324: the empty result of a batch (results is history)
EmptyBatch == [i |-> 1, resolved |-> <<>>, errors |-> <<>>, results |-> <<>>]

\* faulty variant of MoreNames: the loop stops at the first error
MoreNames_StopAtError(r, fieldNames) == r.i <= Len(fieldNames) /\ r.errors = <<>>

\* line 326: the loop goes on while names are left
MoreNames(r, fieldNames) == r.i <= Len(fieldNames)

\* line 327-337: the loop body for `name`, given the result of its resolveFieldName
resolveFieldNamesStep(r, name, res) ==
    [ i |-> r.i + 1,
      resolved |-> IF res.result.success
                   THEN [n \in DOMAIN r.resolved \cup {name} |->
                            IF n = name THEN res.result.resolved ELSE r.resolved[n]]
                   ELSE r.resolved,
      errors |-> IF res.result.success THEN r.errors
                 ELSE Append(r.errors, [name |-> name, error |-> res.result.error,
                                        suggestions |-> res.result.suggestions]),
      results |-> r.results ]

\* history: what resolveFieldName returned for a name, and the fetch it made
History(name, res) ==
    [name |-> name, result |-> res.result, fetchOk |-> res.fetch.ok,
     fields |-> res.fetch.fields]

InitResolve ==
    /\ fieldMetadataCache = <<>>
    /\ providerCalls = 0
    /\ fetchedOk = <<>>
    /\ last = NoOp
    /\ pc = "resolving"
    /\ \E pair \in ResolvePairs, fieldNames \in Seqs(FieldNames, MaxBatch) :
           input = [projectKey |-> pair[1], issueType |-> pair[2],
                    fieldNames |-> fieldNames]
    /\ run = EmptyBatch

ResolveOne(answer) ==
    /\ pc = "resolving"
    /\ MoreNames(run, input.fieldNames)
    /\ LET name == input.fieldNames[run.i]
           res == resolveFieldName(fieldMetadataCache, answer, input.projectKey,
                                   input.issueType, name)
       IN  /\ fieldMetadataCache' = res.fetch.cache
           /\ providerCalls' = providerCalls + (IF res.fetch.invoked THEN 1 ELSE 0)
           /\ run' = [resolveFieldNamesStep(run, name, res) EXCEPT
                         !.results = Append(run.results, History(name, res))]
    /\ UNCHANGED <<fetchedOk, last, pc, input>>

ResolveReturn ==
    /\ pc = "resolving"
    /\ ~MoreNames(run, input.fieldNames)
    /\ pc' = "done"
    /\ UNCHANGED <<cacheVars, input, run>>

NextResolve ==
    \/ \E answer \in ProviderAnswers : ResolveOne(answer)
    \/ ResolveReturn

SpecResolve == InitResolve /\ [][NextResolve]_vars

----------------------------------------------------------------------------
(* Claims about the resolver, checked under SpecResolve *)

Range(s) == {s[k] : k \in 1..Len(s)}

IsDistinct(s) == \A k, m \in 1..Len(s) : s[k] = s[m] => k = m

\* the least index of an entry of `fields` with the given key, 0 when none
EntryWithKey(fields, key) ==
    FirstIdx(Len(fields), {k \in 1..Len(fields) : fields[k].key = key})

\* the indices of the entries of `fields` whose display name equals `name` ignoring case
NameMatches(fields, name) ==
    {k \in 1..Len(fields) : toLowerCase(fields[k].name) = toLowerCase(name)}

\* C3: a name of internal-identifier shape always resolves, with key equal to the
\* name: to its schema entry when the fetch succeeded and the schema has the id,
\* and to type 'unknown' when the id is absent or the fetch threw.
C3_InternalIdAlwaysResolves ==
    \A k \in 1..Len(run.results) :
        LET e == run.results[k]
            m == EntryWithKey(e.fields, e.name)
        IN  isInternalFieldId(e.name) =>
                /\ e.result.success
                /\ e.result.resolved.key = e.name
                /\ e.result.resolved.originalName = e.name
                /\ IF e.fetchOk /\ m # 0
                   THEN e.result.resolved.metadata = e.fields[m]
                   ELSE e.result.resolved.type = TUnknown

\* C3 witness: an internal id was resolved although its schema fetch threw
C3_Witness ==
    \E k \in 1..Len(run.results) :
        /\ isInternalFieldId(run.results[k].name)
        /\ ~run.results[k].fetchOk
        /\ run.results[k].result.success
        /\ run.results[k].result.resolved.type = TUnknown

\* the names of the batch whose resolution failed, in input order
FailedNames ==
    LET idx == SelectIdx(Len(run.results),
                   {k \in 1..Len(run.results) : ~run.results[k].result.success})
    IN  [q \in 1..Len(idx) |-> run.results[idx[q]]]

\* C4: when resolveFieldNames returns, every name of the batch was resolved, also
\* after an earlier one failed; for distinct names each name is in exactly one of
\* the resolved map (under the name as typed) and the errors list; the errors keep
\* the input order and each carries the suggestions of its own name.
C4_BatchResolvesEveryName ==
    pc = "done" =>
        /\ Len(run.results) = Len(input.fieldNames)
        /\ \A k \in 1..Len(run.results) : run.results[k].name = input.fieldNames[k]
        /\ Len(run.errors) = Len(FailedNames)
        /\ \A q \in 1..Len(run.errors) :
               /\ run.errors[q].name = FailedNames[q].name
               /\ run.errors[q].error = FailedNames[q].result.error
               /\ run.errors[q].suggestions = FailedNames[q].result.suggestions
        /\ IsDistinct(input.fieldNames) =>
               \A k \in 1..Len(run.results) :
                   LET e == run.results[k]
                       inErrors == \E q \in 1..Len(run.errors) : run.errors[q].name = e.name
                   IN  /\ (e.name \in DOMAIN run.resolved) <=> ~inErrors
                       /\ e.result.success <=> e.name \in DOMAIN run.resolved
                       /\ e.name \in DOMAIN run.resolved =>
                              run.resolved[e.name] = e.result.resolved

\* C4 witness: a batch returned in which a name resolved after an earlier one failed
C4_Witness ==
    /\ pc = "done"
    /\ Len(run.results) = 2
    /\ ~run.results[1].result.success
    /\ run.results[1].result.suggestions # <<>>
    /\ run.results[2].result.success
    /\ Len(run.errors) = 1
    /\ DOMAIN run.resolved = {input.fieldNames[2]}

\* C6: a name that is no internal id and equals a display name ignoring case
\* resolves, when the fetch succeeded, to the first such entry in schema order,
\* with that entry's metadata and the name as typed.
C6_ExactMatchIgnoringCase ==
    \A k \in 1..Len(run.results) :
        LET e == run.results[k]
            hits == NameMatches(e.fields, e.name)
        IN  (~isInternalFieldId(e.name) /\ e.fetchOk /\ hits # {}) =>
                LET m == CHOOSE h \in hits : \A g \in hits : h <= g
                IN  /\ e.result.success
                    /\ e.result.resolved.key = e.fields[m].key
                    /\ e.result.resolved.metadata = e.fields[m]
                    /\ e.result.resolved.displayName = e.fields[m].name
                    /\ e.result.resolved.originalName = e.name

\* C6 witness: SEVERITY matched two display names and resolved to the first
C6_Witness ==
    \E k \in 1..Len(run.results) :
        /\ run.results[k].name = SEVERITY
        /\ Cardinality(NameMatches(run.results[k].fields, SEVERITY)) = 2
        /\ run.results[k].result.success
        /\ run.results[k].result.resolved.key = Cf10

\* C7: a name that is no internal id and matches no display name fails; its
\* suggestions are display names within max(3, ceil(length * 0.5)) edits of the
\* lowercased name (display names lowercased too), ascending by distance, the 3
\* closest at most, none when no display name is within the bound; 'Sevrity' gets
\* 'Severity' first.
C7_SuggestionsAreClosestNames ==
    \A k \in 1..Len(run.results) :
        LET e == run.results[k]
            sug == e.result.suggestions
            bound == Max(3, CeilHalf(Len(e.name)))
        IN  (~isInternalFieldId(e.name) /\ e.fetchOk /\ NameMatches(e.fields, e.name) = {}) =>
            \A d \in { Tuple([m \in 1..Len(e.fields) |->
                          levenshteinDistance(toLowerCase(e.name),
                                              toLowerCase(e.fields[m].name))]) } :
                LET within == {m \in 1..Len(e.fields) : d[m] <= bound}
                    at(r) == CHOOSE m \in 1..Len(e.fields) : e.fields[m].name = sug[r]
                IN  /\ ~e.result.success
                    /\ Len(sug) = Min(3, Cardinality(within))
                    /\ \A r \in 1..Len(sug) : at(r) \in within
                    /\ \A r, q \in 1..Len(sug) : r < q => /\ d[at(r)] <= d[at(q)]
                                                          /\ at(r) # at(q)
                    /\ \A m \in within :
                           (\A r \in 1..Len(sug) : at(r) # m) =>
                               \A r \in 1..Len(sug) : d[at(r)] <= d[m]
                    /\ e.name = Sevrity => sug[1] = Severity

\* C7 witness: more than 3 display names were within the bound of a failed name,
\* and the closest one came later in the schema than a farther one
C7_Witness ==
    \E k \in 1..Len(run.results) :
        /\ run.results[k].name = Prority
        /\ ~run.results[k].result.success
        /\ run.results[k].result.suggestions = <<PriorityName, Severity, Points>>

----------------------------------------------------------------------------
(* JavaScript values and the conversions the code applies to them *)

JsStr(s) == [t |-> "str", s |-> s]

JsNum(n) == [t |-> "num", n |-> n]

JsNaN == [t |-> "nan"]

JsBool(b) == [t |-> "bool", b |-> b]

JsNull == [t |-> "null"]

JsUndef == [t |-> "undef"]

JsObj(o) == [t |-> "obj", o |-> o]

JsArr(a) == [t |-> "arr", a |-> a]

\* typeof value === 'object' && value !== null
IsObject(v) == v.t \in {"obj", "arr"}

\* 'k' in obj
HasProp(v, k) == v.t = "obj" /\ k \in DOMAIN v.o

\* obj.k
Prop(v, k) == IF HasProp(v, k) THEN v.o[k] ELSE JsUndef

\* the truthiness of a value
Truthy(v) ==
    CASE v.t = "str" -> v.s # <<>>
      [] v.t = "num" -> v.n # 0
      [] v.t = "bool" -> v.b
      [] v.t \in {"nan", "null", "undef"} -> FALSE
      [] OTHER -> TRUE

\* a || b
Or(a, b) == IF Truthy(a) THEN a ELSE b

\* a string property tested by truthiness: a || b on strings
OrStr(a, b) == IF a # <<>> THEN a ELSE b

RECURSIVE NatToStr(_)
NatToStr(n) ==
    IF n < 10 THEN <<DigitChars[n + 1]>>
    ELSE NatToStr(n \div 10) \o <<DigitChars[(n % 10) + 1]>>

\* String(n) for an integer n
NumToStr(n) == IF n < 0 THEN <<"-">> \o NatToStr(0 - n) ELSE NatToStr(n)

\* String(value), also `${value}`
RECURSIVE ToStr(_)
ToStr(v) ==
    CASE v.t = "str" -> v.s
      [] v.t = "num" -> NumToStr(v.n)
      [] v.t = "nan" -> <<"N","a","N">>
      [] v.t = "bool" -> IF v.b THEN <<"t","r","u","e">> ELSE <<"f","a","l","s","e">>
      [] v.t = "null" -> <<"n","u","l","l">>
      [] v.t = "undef" -> <<"u","n","d","e","f","i","n","e","d">>
      [] v.t = "obj" -> <<"[","o","b","j","e","c","t"," ","O","b","j","e","c","t","]">>
      [] v.t = "arr" ->
            join([i \in 1..Len(v.a) |->
                     IF v.a[i].t \in {"null", "undef"} THEN <<>> ELSE ToStr(v.a[i])],
                 Comma)

IsDigits(d) == Len(d) > 0 /\ \A i \in 1..Len(d) : IsDigit(d[i])

RECURSIVE DigitsValue(_)
DigitsValue(d) ==
    IF d = <<>> THEN 0
    ELSE 10 * DigitsValue(SubSeq(d, 1, Len(d) - 1)) + DigitValue(d[Len(d)])

\* Number(s) for a string: white space is trimmed, the empty string is 0, a
\* decimal integer with an optional sign is its value, anything else is NaN.
\* (Strings with a fraction, an exponent, a radix prefix or 'Infinity' are not
\* inputs of this model.)
StringToNumber(s) ==
    LET u == trim(s)
    IN  IF u = <<>> THEN JsNum(0)
        ELSE IF IsDigits(u) THEN JsNum(DigitsValue(u))
        ELSE IF u[1] = "-" /\ IsDigits(Tail(u)) THEN JsNum(0 - DigitsValue(Tail(u)))
        ELSE IF u[1] = "+" /\ IsDigits(Tail(u)) THEN JsNum(DigitsValue(Tail(u)))
        ELSE JsNaN

\* Number(value)
ToNumber(v) ==
    CASE v.t = "str" -> StringToNumber(v.s)
      [] v.t \in {"num", "nan"} -> v
      [] v.t = "bool" -> JsNum(IF v.b THEN 1 ELSE 0)
      [] v.t = "null" -> JsNum(0)
      [] v.t \in {"undef", "obj"} -> JsNaN
      [] v.t = "arr" -> StringToNumber(ToStr(v))

isNaN(v) == v.t = "nan"

\* String.prototype.includes
includes(s, sub) ==
    \E i \in 0..(Len(s) - Len(sub)) : SubSeq(s, i + 1, i + Len(sub)) = sub

\* a JSON integer: -?(0|[1-9][0-9]*)
IsJsonInt(u) ==
    LET d == IF u # <<>> /\ u[1] = "-" THEN Tail(u) ELSE u
    IN  IsDigits(d) /\ (Len(d) > 1 => d[1] # "0")

\* a JSON string without escapes: "..."
IsJsonString(u) ==
    /\ Len(u) >= 2
    /\ u[1] = "\"" /\ u[Len(u)] = "\""
    /\ \A i \in 2..(Len(u) - 1) : u[i] \notin {"\"", "\\"}

\* JSON.parse(s): the value, or throws.  (Texts with '[', '{', a fraction or an
\* exponent are not inputs of this model.)
JSONparse(s) ==
    LET u == trim(s)
    IN  IF u = <<"n","u","l","l">> THEN [throws |-> FALSE, value |-> JsNull]
        ELSE IF u = <<"t","r","u","e">> THEN [throws |-> FALSE, value |-> JsBool(TRUE)]
        ELSE IF u = <<"f","a","l","s","e">> THEN [throws |-> FALSE, value |-> JsBool(FALSE)]
        ELSE IF IsJsonInt(u) THEN [throws |-> FALSE, value |-> StringToNumber(u)]
        ELSE IF IsJsonString(u)
        THEN [throws |-> FALSE, value |-> JsStr(SubSeq(u, 2, Len(u) - 1))]
        ELSE [throws |-> TRUE, value |-> JsUndef]

----------------------------------------------------------------------------
(* value-formatter.ts *)

FormatOk(formattedValue, originalValue, formatDescription) ==
    [success |-> TRUE, formattedValue |-> formattedValue,
     originalValue |-> originalValue, formatDescription |-> formatDescription,
     error |-> <<>>]

FormatFail(originalValue, error) ==
    [success |-> FALSE, formattedValue |-> JsUndef, originalValue |-> originalValue,
     formatDescription |-> <<>>, error |-> error]

\* `{"prop": "s"}` as a description
Described(prop, s) == <<"{\"", prop, "\": \"">> \o s \o <<"\"}">>

\* line 22-36
isAlreadyFormatted(value) ==
    IF ~IsObject(value) THEN FALSE
    ELSE \/ HasProp(value, "value")
         \/ HasProp(value, "name")
         \/ HasProp(value, "id")
         \/ HasProp(value, "accountId")
         \/ HasProp(value, "key")

\* line 41-46
isFormattedArray(value) ==
    IF value.t # "arr" THEN FALSE
    ELSE Len(value.a) = 0 \/ \A i \in 1..Len(value.a) : isAlreadyFormatted(value.a[i])

\* faulty variant of detectAllowedValueFormat: every allowed value is sampled
detectAllowedValueFormat_All(allowedValues) ==
    IF Len(allowedValues) = 0 THEN "value"
    ELSE LET sample == allowedValues
             S == 1..Len(sample)
         IN  IF \E i \in S : sample[i].name # <<>> /\ sample[i].value = <<>>
             THEN "name"
             ELSE IF \E i \in S : sample[i].value # <<>> THEN "value"
             ELSE IF \A i \in S : /\ sample[i].id # <<>>
                                  /\ sample[i].name = <<>>
                                  /\ sample[i].value = <<>>
             THEN "id"
             ELSE IF \E i \in S : sample[i].name # <<>> THEN "name"
             ELSE "value"

\* line 55-91
detectAllowedValueFormat(allowedValues) ==
    IF Len(allowedValues) = 0 THEN "value"
    ELSE LET sample == slice0(allowedValues, 3)
             S == 1..Len(sample)
         IN  IF \E i \in S : sample[i].name # <<>> /\ sample[i].value = <<>>
             THEN "name"
             ELSE IF \E i \in S : sample[i].value # <<>> THEN "value"
             ELSE IF \A i \in S : /\ sample[i].id # <<>>
                                  /\ sample[i].name = <<>>
                                  /\ sample[i].value = <<>>
             THEN "id"
             ELSE IF \E i \in S : sample[i].name # <<>> THEN "name"
             ELSE "value"

\* faulty variant of findMatchingAllowedValue: no match by id
findMatchingAllowedValue_NoId(input_, allowedValues) ==
    LET inputLower == toLowerCase(input_)
    IN  FirstIdx(Len(allowedValues),
            {k \in 1..Len(allowedValues) :
                LET av == allowedValues[k]
                IN  \/ av.name # <<>> /\ toLowerCase(av.name) = inputLower
                    \/ av.value # <<>> /\ toLowerCase(av.value) = inputLower})

\* line 96-117: the index of the first matching allowed value, 0 for undefined
findMatchingAllowedValue(input_, allowedValues) ==
    LET inputLower == toLowerCase(input_)
    IN  FirstIdx(Len(allowedValues),
            {k \in 1..Len(allowedValues) :
                LET av == allowedValues[k]
                IN  \/ av.name # <<>> /\ toLowerCase(av.name) = inputLower
                    \/ av.value # <<>> /\ toLowerCase(av.value) = inputLower
                    \/ av.id = input_})

\* line 122-162
formatOptionValue(value, field) ==
    IF isAlreadyFormatted(value)
    THEN FormatOk(value, value, <<"pre-formatted object">>)
    ELSE LET stringValue == ToStr(value)
             allowedValues == field.metadata.allowedValues
             match == findMatchingAllowedValue(stringValue, allowedValues)
         IN  IF match # 0
             THEN LET v == OrStr(allowedValues[match].value, allowedValues[match].name)
                  IN  FormatOk(JsObj([value |-> JsStr(v)]), value, Described("value", v))
             ELSE FormatOk(JsObj([value |-> JsStr(stringValue)]), value,
                           Described("value", stringValue))

\* line 182-192 with the filter dropped: the pieces of a comma-separated string
ArrayItems_KeepEmpty(value) ==
    IF value.t = "str"
    THEN LET parts == split(value.s, Comma[1])
         IN  [i \in 1..Len(parts) |-> trim(parts[i])]
    ELSE IF value.t = "arr" THEN [i \in 1..Len(value.a) |-> ToStr(value.a[i])]
    ELSE <<ToStr(value)>>

\* line 182-192: the items of an array value, as strings
ArrayItems(value) ==
    IF value.t = "str"
    THEN LET parts == split(value.s, Comma[1])
             trimmed == [i \in 1..Len(parts) |-> trim(parts[i])]
             kept == SelectIdx(Len(trimmed),
                         {i \in 1..Len(trimmed) : Len(trimmed[i]) > 0})
         IN  [q \in 1..Len(kept) |-> trimmed[kept[q]]]
    ELSE IF value.t = "arr" THEN [i \in 1..Len(value.a) |-> ToStr(value.a[i])]
    ELSE <<ToStr(value)>>

\* match?.value || match?.name || item
MatchedValueOrItem(item, allowedValues) ==
    LET match == findMatchingAllowedValue(item, allowedValues)
    IN  IF match = 0 THEN item
        ELSE OrStr(allowedValues[match].value, OrStr(allowedValues[match].name, item))

\* line 232-247: one item in the detected style
StyledItem(item, allowedValues, formatStyle) ==
    LET match == findMatchingAllowedValue(item, allowedValues)
    IN  IF formatStyle = "name"
        THEN IF match = 0 THEN item ELSE OrStr(allowedValues[match].name, item)
        ELSE IF formatStyle = "id"
        THEN IF match = 0 THEN item ELSE OrStr(allowedValues[match].id, item)
        ELSE MatchedValueOrItem(item, allowedValues)

\* an array of one-property wrapper objects { prop: vals[i] }
Wrapped(prop, vals) ==
    JsArr([i \in 1..Len(vals) |-> JsObj([p \in {prop} |-> JsStr(vals[i])])])

\* `[d1, d2, ...]` as a description
DescribedList(prop, vals) ==
    <<"[">> \o join([i \in 1..Len(vals) |-> Described(prop, vals[i])], <<", ">>) \o <<"]">>

\* line 167-255
formatArrayValue(value, field) ==
    IF isFormattedArray(value)
    THEN FormatOk(value, value, <<"pre-formatted array">>)
    ELSE LET items == ArrayItems(value)
             itemType == field.metadata.schema.items
             allowedValues == field.metadata.allowedValues
         IN  IF itemType = <<"o","p","t","i","o","n">> \/ itemType = <<"s","t","r","i","n","g">>
             THEN LET vals == [i \in 1..Len(items) |->
                                  MatchedValueOrItem(items[i], allowedValues)]
                  IN  FormatOk(Wrapped("value", vals), value, DescribedList("value", vals))
             ELSE IF itemType = <<"u","s","e","r">>
             THEN FormatOk(Wrapped("accountId", items), value,
                           DescribedList("accountId", items))
             ELSE LET formatStyle == detectAllowedValueFormat(allowedValues)
                      vals == [i \in 1..Len(items) |->
                                  StyledItem(items[i], allowedValues, formatStyle)]
                  IN  FormatOk(Wrapped(formatStyle, vals), value,
                               DescribedList(formatStyle, vals))

\* line 260-286
formatUserValue(value, field) ==
    IF isAlreadyFormatted(value)
    THEN FormatOk(value, value, <<"pre-formatted user object">>)
    ELSE LET stringValue == ToStr(value)
         IN  FormatOk(JsObj([accountId |-> JsStr(stringValue)]), value,
                      Described("accountId", stringValue))

\* line 291-321
formatPriorityValue(value, field) ==
    IF isAlreadyFormatted(value)
    THEN FormatOk(value, value, <<"pre-formatted priority object">>)
    ELSE LET stringValue == ToStr(value)
             allowedValues == field.metadata.allowedValues
             match == findMatchingAllowedValue(stringValue, allowedValues)
         IN  IF match # 0
             THEN FormatOk(JsObj([id |-> JsStr(allowedValues[match].id)]), value,
                           Described("id", allowedValues[match].id))
             ELSE FormatOk(JsObj([name |-> JsStr(stringValue)]), value,
                           Described("name", stringValue))

\* line 326-349
formatNamedObjectValue(value, field, objectType) ==
    IF isAlreadyFormatted(value)
    THEN FormatOk(value, value, <<"pre-formatted ", objectType, " object">>)
    ELSE LET stringValue == ToStr(value)
         IN  FormatOk(JsObj([name |-> JsStr(stringValue)]), value,
                      Described("name", stringValue))

\* line 354-379
formatNumberValue(value) ==
    IF value.t \in {"num", "nan"} THEN FormatOk(value, value, <<"number">>)
    ELSE LET num == ToNumber(value)
         IN  IF isNaN(num)
             THEN FormatFail(value, <<"Invalid number value: ">> \o ToStr(value))
             ELSE FormatOk(num, value, ToStr(num))

\* new Date(s) for a date string: the ISO form YYYY-MM-DD with a month 01-12 and
\* a day 01-28 is that day at 00:00 UTC; a string without a digit is an invalid
\* date.  (Other strings are not inputs of this model.)
IsIsoDate(s) ==
    /\ Len(s) = 10
    /\ s[5] = "-" /\ s[8] = "-"
    /\ \A i \in {1, 2, 3, 4, 6, 7, 9, 10} : IsDigit(s[i])
    /\ DigitsValue(SubSeq(s, 6, 7)) \in 1..12
    /\ DigitsValue(SubSeq(s, 9, 10)) \in 1..28

\* line 384-406
formatDateValue(value) ==
    LET stringValue == ToStr(value)
    IN  IF ~IsIsoDate(stringValue)
        THEN FormatFail(value, <<"Invalid date value: ">> \o ToStr(value)
                               \o <<". Use format YYYY-MM-DD">>)
        ELSE FormatOk(JsStr(stringValue), value, stringValue)

\* line 411-431
formatDateTimeValue(value) ==
    LET stringValue == ToStr(value)
    IN  IF ~IsIsoDate(stringValue)
        THEN FormatFail(value, <<"Invalid datetime value: ">> \o ToStr(value)
                               \o <<". Use ISO format">>)
        ELSE LET formatted == stringValue \o <<"T","0","0",":","0","0",":","0","0",".","0","0","0","Z">>
             IN  FormatOk(JsStr(formatted), value, formatted)

\* faulty variant of formatFieldValue: the dispatch looks at the schema type
\* only, never at the key of the field
formatFieldValue_ByTypeOnly(field, value) ==
    LET schemaType == field.metadata.schema.type
        customType == field.metadata.schema.custom
    IN  IF schemaType = <<"a","r","r","a","y">> THEN formatArrayValue(value, field)
        ELSE IF schemaType = <<"o","p","t","i","o","n">> THEN formatOptionValue(value, field)
        ELSE IF schemaType = <<"u","s","e","r">> THEN formatUserValue(value, field)
        ELSE IF schemaType = <<"p","r","i","o","r","i","t","y">>
        THEN formatPriorityValue(value, field)
        ELSE IF schemaType = <<"r","e","s","o","l","u","t","i","o","n">>
        THEN formatNamedObjectValue(value, field, "resolution")
        ELSE IF \/ schemaType = <<"v","e","r","s","i","o","n">>
        THEN formatNamedObjectValue(value, field, "version")
        ELSE IF schemaType = <<"c","o","m","p","o","n","e","n","t">>
        THEN formatNamedObjectValue(value, field, "component")
        ELSE IF schemaType = <<"n","u","m","b","e","r">> THEN formatNumberValue(value)
        ELSE IF schemaType = <<"d","a","t","e">> THEN formatDateValue(value)
        ELSE IF schemaType = <<"d","a","t","e","t","i","m","e">> THEN formatDateTimeValue(value)
        ELSE IF customType # <<>> /\ (\/ includes(customType, <<"s","e","l","e","c","t">>)
                                      \/ includes(customType, <<"r","a","d","i","o","b","u","t","t","o","n","s">>))
        THEN formatOptionValue(value, field)
        ELSE IF customType # <<>> /\ (\/ includes(customType, <<"m","u","l","t","i","s","e","l","e","c","t">>)
                                      \/ includes(customType, <<"m","u","l","t","i","c","h","e","c","k","b","o","x","e","s">>))
        THEN formatArrayValue(value, field)
        ELSE IF customType # <<>> /\ includes(customType, <<"u","s","e","r","p","i","c","k","e","r">>)
        THEN formatUserValue(value, field)
        ELSE IF customType # <<>> /\ includes(customType, <<"m","u","l","t","i","u","s","e","r","p","i","c","k","e","r">>)
        THEN formatArrayValue(value, field)
        ELSE IF customType # <<>> /\ includes(customType, <<"c","a","s","c","a","d","i","n","g","s","e","l","e","c","t">>)
        THEN FormatOk(value, value, <<"cascading select (pass-through)">>)
        ELSE FormatOk(value, value, <<"pass-through (text/string)">>)

\* line 436-541
formatFieldValue(field, value) ==
    LET schemaType == field.metadata.schema.type
        customType == field.metadata.schema.custom
    IN  IF schemaType = <<"a","r","r","a","y">> THEN formatArrayValue(value, field)
        ELSE IF schemaType = <<"o","p","t","i","o","n">> THEN formatOptionValue(value, field)
        ELSE IF schemaType = <<"u","s","e","r">> THEN formatUserValue(value, field)
        ELSE IF schemaType = <<"p","r","i","o","r","i","t","y">> \/ field.key = <<"p","r","i","o","r","i","t","y">>
        THEN formatPriorityValue(value, field)
        ELSE IF schemaType = <<"r","e","s","o","l","u","t","i","o","n">> \/ field.key = <<"r","e","s","o","l","u","t","i","o","n">>
        THEN formatNamedObjectValue(value, field, "resolution")
        ELSE IF \/ schemaType = <<"v","e","r","s","i","o","n">>
                \/ field.key = <<"f","i","x","V","e","r","s","i","o","n","s">>
                \/ field.key = <<"v","e","r","s","i","o","n","s">>
        THEN formatNamedObjectValue(value, field, "version")
        ELSE IF schemaType = <<"c","o","m","p","o","n","e","n","t">> \/ field.key = <<"c","o","m","p","o","n","e","n","t","s">>
        THEN formatNamedObjectValue(value, field, "component")
        ELSE IF schemaType = <<"n","u","m","b","e","r">> THEN formatNumberValue(value)
        ELSE IF schemaType = <<"d","a","t","e">> THEN formatDateValue(value)
        ELSE IF schemaType = <<"d","a","t","e","t","i","m","e">> THEN formatDateTimeValue(value)
        ELSE IF customType # <<>> /\ (\/ includes(customType, <<"s","e","l","e","c","t">>)
                                      \/ includes(customType, <<"r","a","d","i","o","b","u","t","t","o","n","s">>))
        THEN formatOptionValue(value, field)
        ELSE IF customType # <<>> /\ (\/ includes(customType, <<"m","u","l","t","i","s","e","l","e","c","t">>)
                                      \/ includes(customType, <<"m","u","l","t","i","c","h","e","c","k","b","o","x","e","s">>))
        THEN formatArrayValue(value, field)
        ELSE IF customType # <<>> /\ includes(customType, <<"u","s","e","r","p","i","c","k","e","r">>)
        THEN formatUserValue(value, field)
        ELSE IF customType # <<>> /\ includes(customType, <<"m","u","l","t","i","u","s","e","r","p","i","c","k","e","r">>)
        THEN formatArrayValue(value, field)
        ELSE IF customType # <<>> /\ includes(customType, <<"c","a","s","c","a","d","i","n","g","s","e","l","e","c","t">>)
        THEN FormatOk(value, value, <<"cascading select (pass-through)">>)
        ELSE FormatOk(value, value, <<"pass-through (text/string)">>)

----------------------------------------------------------------------------
(* field-resolver.ts: the value validator *)

ValidationOk(value) ==
    [valid |-> TRUE, normalizedValue |-> value, error |-> <<>>,
     allowedValues |-> <<>>, suggestions |-> <<>>]

ValidationFail(error, allowedValues, suggestions) ==
    [valid |-> FALSE, normalizedValue |-> JsUndef, error |-> error,
     allowedValues |-> allowedValues, suggestions |-> suggestions]

\* faulty variant of ValueCandidates: no distance bound
ValueCandidates_NoBound(value, allowedValues) ==
    LET valueLower == toLowerCase(value)
    IN  Tuple([k \in 1..Len(allowedValues) |->
                  LET displayValue == OrStr(allowedValues[k].value,
                                            allowedValues[k].name)
                  IN  [display |-> displayValue,
                       distance |-> levenshteinDistance(valueLower,
                                        toLowerCase(displayValue))]])

\* line 373-383: the candidates, in the order of the allowed values
ValueCandidates(value, allowedValues) ==
    LET valueLower == toLowerCase(value)
        scored == Tuple([k \in 1..Len(allowedValues) |->
                     LET displayValue == OrStr(allowedValues[k].value,
                                               allowedValues[k].name)
                     IN  [display |-> displayValue,
                          distance |-> levenshteinDistance(valueLower,
                                           toLowerCase(displayValue))]])
        close(sc) == SelectIdx(Len(sc), {k \in 1..Len(sc) :
                         sc[k].distance <= Max(3, CeilHalf(Len(value)))})
    IN  CHOOSE cands \in
            { Tuple([q \in 1..Len(idx) |-> sc[idx[q]]]) :
              <<sc, idx>> \in {<<s, close(s)>> : s \in {scored}} } : TRUE

\* faulty variant of findSimilarValues: the candidates are not sorted
findSimilarValues_Unsorted(value, allowedValues) ==
    CHOOSE names \in
        { Tuple([z \in 1..Len(kept) |-> kept[z].display]) :
          kept \in { Tuple(slice0(cands, 3)) :
                     cands \in {ValueCandidates(value, allowedValues)} } } : TRUE

\* line 365-387, maxSuggestions = 3
findSimilarValues(value, allowedValues) ==
    CHOOSE names \in
        { Tuple([z \in 1..Len(sorted) |-> sorted[z].display]) :
          sorted \in { Tuple(slice0(SortByDistance(cands), 3)) :
                       cands \in {ValueCandidates(value, allowedValues)} } } : TRUE

\* line 404-410: the string a value is compared by
CompareValue(value) ==
    IF IsObject(value)
    THEN ToStr(Or(Prop(value, "value"),
                  Or(Prop(value, "name"), Or(Prop(value, "id"), JsStr(<<>>)))))
    ELSE ToStr(value)

\* faulty variant of MatchesAllowed: the id is compared ignoring case
MatchesAllowed_IdIgnoringCase(av, compareValue) ==
    LET compareLower == toLowerCase(compareValue)
    IN  \/ toLowerCase(av.name) = compareLower
        \/ av.value # <<>> /\ toLowerCase(av.value) = compareLower
        \/ toLowerCase(av.id) = compareLower

\* line 416-420: the test of one allowed value
MatchesAllowed(av, compareValue) ==
    LET compareLower == toLowerCase(compareValue)
    IN  \/ toLowerCase(av.name) = compareLower
        \/ av.value # <<>> /\ toLowerCase(av.value) = compareLower
        \/ av.id = compareValue

\* line 392-434
validateFieldValue(field, value) ==
    LET allowedValues == field.metadata.allowedValues
    IN  IF Len(allowedValues) = 0 THEN ValidationOk(value)
        ELSE LET compareValue == CompareValue(value)
             IN  IF \E k \in 1..Len(allowedValues) :
                        MatchesAllowed(allowedValues[k], compareValue)
                 THEN ValidationOk(value)
                 ELSE ValidationFail(
                          <<"Invalid value \"">> \o compareValue
                              \o <<"\" for field \"">> \o field.displayName \o <<"\"">>,
                          allowedValues,
                          findSimilarValues(compareValue, allowedValues))

----------------------------------------------------------------------------
(* formatFieldValue and validateFieldValue applied to one field and one    *)
(* value: the value is formatted and the formatted value validated, as     *)
(* processCustomFields does, or the value is validated as it is.           *)

TDate == <<"d","a","t","e">>

Due == <<"D","u","e">>

Areas == <<"A","r","e","a","s">>

Builds == <<"B","u","i","l","d","s">>

Groups == <<"G","r","o","u","p","s">>

Tiers == <<"T","i","e","r","s">>

Tags == <<"T","a","g","s">>

Gold == <<"G","o","l","d">>

Iron == <<"I","r","o","n">>

NameOnlyAllowed == << AV(One, Core, <<>>), AV(Two, Web, <<>>) >>

IdOnlyAllowed == << AV(<<"7">>, <<>>, <<>>), AV(<<"8">>, <<>>, <<>>) >>

\* three entries with a value token, then one with a name only
TiersAllowed ==
    << AV(One, High, High), AV(Two, Low, Minor), AV(<<"3">>, Top, Top),
       AV(<<"4">>, Gold, <<>>) >>

\* one entry with a name only among four: the third
BuildsAllowed ==
    << AV(One, Core, Core), AV(Two, Web, Web), AV(<<"3">>, Iron, <<>>),
       AV(<<"4">>, Gold, Gold) >>

\* fields of further issue types: a date field, and array fields whose item
\* type formatArrayValue has no branch for
OtherFields ==
    << [key |-> Cf(<<"1","5">>), meta |-> Meta(Due, TDate, <<>>, <<>>)],
       [key |-> Cf(<<"1","6">>), meta |-> Meta(Areas, TArray, <<"c","o","m","p","o","n","e","n","t">>, NameOnlyAllowed)],
       [key |-> Cf(<<"1","7">>), meta |-> Meta(Builds, TArray, <<"v","e","r","s","i","o","n">>, BuildsAllowed)],
       [key |-> Cf(<<"1","8">>), meta |-> Meta(Groups, TArray, <<"g","r","o","u","p">>, IdOnlyAllowed)],
       [key |-> Cf(<<"1","9">>), meta |-> Meta(Tiers, TArray, <<"t","i","e","r">>, TiersAllowed)],
       [key |-> Cf(<<"2","1">>), meta |-> Meta(Tags, TArray, <<"t","a","g">>, <<>>)],
       [key |-> Cf(<<"2","2">>), meta |-> Meta(Teams, TArray, <<"v","e","r","s","i","o","n">>, TeamsAllowed)] >>

\* standard field names accepted as internal identifiers whose schema entry
\* could not be attached (field-resolver.ts line 229-264)
UnattachedFields ==
    { ResolvedFrom(name, name, UnknownMeta(name)) :
        name \in {Priority, Summary, <<"c","o","m","p","o","n","e","n","t","s">>,
                  <<"f","i","x","V","e","r","s","i","o","n","s">>,
                  <<"r","e","s","o","l","u","t","i","o","n">>} }

\* the identifiers of custom field types
CustomTypes ==
    { <<"c","o","m",".","a","t","l","a","s","s","i","a","n",".","j","i","r","a",".","p","l","u","g","i","n",".","s","y","s","t","e","m",".","c","u","s","t","o","m","f","i","e","l","d","t","y","p","e","s",":">> \o kind :
        kind \in { <<"m","u","l","t","i","s","e","l","e","c","t">>,
                   <<"m","u","l","t","i","c","h","e","c","k","b","o","x","e","s">>,
                   <<"m","u","l","t","i","u","s","e","r","p","i","c","k","e","r">>,
                   <<"c","a","s","c","a","d","i","n","g","s","e","l","e","c","t">>,
                   <<"s","e","l","e","c","t">>,
                   <<"r","a","d","i","o","b","u","t","t","o","n","s">>,
                   <<"u","s","e","r","p","i","c","k","e","r">>,
                   <<"t","e","x","t","f","i","e","l","d">> } }

\* fields of a schema type formatFieldValue has no branch for, with a custom
\* type identifier, and the allowed values of Severity
CustomTypedFields ==
    { ResolvedFrom(Zone, Cf(<<"3","0">>),
                   [key |-> Cf(<<"3","0">>)]
                       @@ [Meta(Zone, <<"a","n","y">>, <<>>, SeverityAllowed) EXCEPT !.schema.custom = custom]) :
        custom \in CustomTypes }

\* the resolved fields of issue type Bug and of the further issue types, and an
\* id the schema does not have
ResolvedFields ==
    { ResolvedFrom(m.name, m.key, m) : m \in Range(BuildFieldMap(BugFields)) }
        \cup { ResolvedFrom(m.name, m.key, m) : m \in Range(BuildFieldMap(OtherFields)) }
        \cup { ResolvedFrom(Cf99, Cf99, UnknownMeta(Cf99)) }
        \cup UnattachedFields
        \cup CustomTypedFields

IsoDay == <<"2","0","2","4","-","0","1","-","1","5">>

NotADate == <<"n","o","t","-","a","-","d","a","t","e">>

Critical == <<"C","r","i","t","i","c","a","l">>

RawStrings ==
    { <<>>, High, HighLc, Minor, MINOR, Low, Top, One, X9, X9Uc, Bad, Abc, Five,
      <<"-","5">>, <<" ","1","2"," ">>, <<"C","o","r","e",","," ","W","e","b">>, <<"w","e","b",",",","," ","B","a","d"," ",",","C","O","R","E">>, <<" ",","," ">>, <<"7",",","x","9">>,
      IsoDay, NotADate, Critical, <<"g","o","l","d",","," ","I","r","o","n",",","T","O","P">>,
      <<"G","o","l","f">>, <<"i","o","n">> }

WrapperObjects ==
    { JsObj([value |-> JsStr(High)]), JsObj([value |-> JsStr(X9Uc)]),
      JsObj([name |-> JsStr(Low)]), JsObj([id |-> JsStr(Two)]),
      JsObj([id |-> JsStr(X9Uc)]), JsObj([value |-> JsStr(<<>>), name |-> JsStr(High)]),
      JsObj([accountId |-> JsStr(Abc)]),
      JsObj([value |-> JsStr(HighLc)]), JsObj([value |-> JsStr(Critical)]) }

RawValues ==
    { JsStr(s) : s \in RawStrings }
        \cup WrapperObjects
        \cup { JsNum(5), JsNum(0), JsNull, JsBool(TRUE), JsObj([other |-> JsNum(1)]),
               JsArr(<<>>),
               JsArr(<<JsObj([value |-> JsStr(Core)]), JsObj([id |-> JsStr(One)])>>),
               JsArr(<<JsStr(Core), JsStr(Bad)>>),
               JsArr(<<JsObj([value |-> JsStr(Web)]), JsStr(Core)>>) }

\* the values whose date this model decides: String(value) is a valid ISO day
\* or has no digit at all
IsDateInput(value) ==
    LET s == ToStr(value)
    IN  IsIsoDate(s) \/ \A i \in 1..Len(s) : ~IsDigit(s[i])

FieldValues ==
    { fv \in ResolvedFields \X RawValues :
         fv[1].type \in {TDate, <<"d","a","t","e","t","i","m","e">>} => IsDateInput(fv[2]) }

NoFormat == FormatFail(JsUndef, <<>>)

NoValidation == ValidationFail(<<>>, <<>>, <<>>)

InitValue ==
    /\ fieldMetadataCache = <<>>
    /\ providerCalls = 0
    /\ fetchedOk = <<>>
    /\ last = NoOp
    /\ pc = "value"
    /\ \E fv \in FieldValues : input = [field |-> fv[1], value |-> fv[2]]
    /\ run = [format |-> NoFormat, validation |-> NoValidation]

\* formatFieldValue(field, value)
FormatValue ==
    /\ pc = "value"
    /\ run' = [run EXCEPT !.format = formatFieldValue(input.field, input.value)]
    /\ pc' = "formatted"
    /\ UNCHANGED <<cacheVars, input>>

\* validateFieldValue(field, value) on the value as given
ValidateValue ==
    /\ pc = "value"
    /\ run' = [run EXCEPT !.validation = validateFieldValue(input.field, input.value)]
    /\ pc' = "validated"
    /\ UNCHANGED <<cacheVars, input>>

\* validateFieldValue(field, formatted) on the value formatFieldValue returned
ValidateFormatted ==
    /\ pc = "formatted"
    /\ run.format.success
    /\ run' = [run EXCEPT !.validation =
                  validateFieldValue(input.field, run.format.formattedValue)]
    /\ pc' = "formattedValidated"
    /\ UNCHANGED <<cacheVars, input>>

NextValue == FormatValue \/ ValidateValue \/ ValidateFormatted

SpecValue == InitValue /\ [][NextValue]_vars

----------------------------------------------------------------------------
(* Claims about the validator and the formatter, checked under SpecValue *)

\* the value validateFieldValue was given in this state
Validated == IF pc = "validated" THEN input.value ELSE run.format.formattedValue

\* a value unwrapped to a string: its value, else its name, else its id
Unwrapped(v) ==
    LET has(k) == v.t = "obj" /\ k \in DOMAIN v.o /\ Truthy(v.o[k])
    IN  IF v.t \notin {"obj", "arr"} THEN ToStr(v)
        ELSE IF has("value") THEN ToStr(v.o["value"])
        ELSE IF has("name") THEN ToStr(v.o["name"])
        ELSE IF has("id") THEN ToStr(v.o["id"])
        ELSE <<>>

EqualIgnoringCase(a, b) == toLowerCase(a) = toLowerCase(b)

FormattedString(type) ==
    /\ pc = "formatted"
    /\ input.field.metadata.schema.type = type
    /\ input.value.t = "str"

\* the value token of an allowed value, else its name
TokenOrName(av) == IF av.value # <<>> THEN av.value ELSE av.name

\* the allowed values an input names by name or value token, ignoring case
NamedBy(allowed, s) ==
    {k \in 1..Len(allowed) :
        \/ allowed[k].name # <<>> /\ EqualIgnoringCase(allowed[k].name, s)
        \/ allowed[k].value # <<>> /\ EqualIgnoringCase(allowed[k].value, s)}

\* C8 (as claimed): an option field and a raw string give {value: v}, v the value
\* token (else the name) of the allowed value named by the string, and the raw
\* string itself when no allowed value matches by name or value token.
C8_OptionWrapsNamedValue ==
    FormattedString(TOption) =>
        LET allowed == input.field.metadata.allowedValues
            s == input.value.s
            M == NamedBy(allowed, s)
        IN  /\ run.format.success
            /\ \E v \in {s} \cup {TokenOrName(allowed[k]) : k \in 1..Len(allowed)} :
                   /\ run.format.formattedValue = JsObj([value |-> JsStr(v)])
                   /\ IF M = {} THEN v = s ELSE \E k \in M : v = TokenOrName(allowed[k])

\* C8 (amended): formatFieldValue for an option-typed field and a raw string
\* returns success with {value: v}, where v is the value token (else the name) of
\* the first allowed value whose name or value token equals the string ignoring
\* case or whose id equals the string exactly, and v is the raw string itself
\* when no allowed value matches by name, value token or id.
C8_OptionWrapsFirstMatch ==
    FormattedString(TOption) =>
        LET allowed == input.field.metadata.allowedValues
            s == input.value.s
            M == NamedBy(allowed, s) \cup {k \in 1..Len(allowed) : allowed[k].id = s}
            v == IF M = {} THEN s
                 ELSE TokenOrName(allowed[CHOOSE k \in M : \A j \in M : k <= j])
        IN  /\ run.format.success
            /\ run.format.formattedValue = JsObj([value |-> JsStr(v)])
            /\ run.format.originalValue = input.value

\* C8 witness: an option field was given the id of an allowed value as a raw string
C8_Witness ==
    /\ FormattedString(TOption)
    /\ NamedBy(input.field.metadata.allowedValues, input.value.s) = {}
    /\ \E k \in 1..Len(input.field.metadata.allowedValues) :
           /\ input.field.metadata.allowedValues[k].id = input.value.s
           /\ run.format.formattedValue =
                  JsObj([value |-> JsStr(TokenOrName(input.field.metadata.allowedValues[k]))])

\* the position of the k-th comma of s; 0 for k = 0, Len(s) + 1 past the last one
NthComma(s, k) ==
    LET C == {i \in 1..Len(s) : s[i] = ","}
    IN  IF k = 0 THEN 0
        ELSE IF k > Cardinality(C) THEN Len(s) + 1
        ELSE CHOOSE i \in C : Cardinality({j \in C : j < i}) = k - 1

\* the pieces between the commas of s, trimmed
TrimmedPieces(s) ==
    [k \in 1..(Cardinality({i \in 1..Len(s) : s[i] = ","}) + 1) |->
        trim(SubSeq(s, NthComma(s, k - 1) + 1, NthComma(s, k) - 1))]

\* the non-empty trimmed pieces of s, in order
RemainingPieces(s) ==
    LET t == TrimmedPieces(s)
        kept == SelectIdx(Len(t), {k \in 1..Len(t) : t[k] # <<>>})
    IN  [q \in 1..Len(kept) |-> t[kept[q]]]

\* an object with one of the wrapper properties
IsWrapper(v) ==
    v.t = "obj" /\ DOMAIN v.o \cap {"value", "name", "id", "accountId", "key"} # {}

\* C9: an array field and a comma-separated string give one element per non-empty
\* trimmed piece, in order: {value: ...} for item type option (the piece, or the
\* token or name of the allowed value it matches), {accountId: piece} for item
\* type user; an array of wrapper objects is returned unchanged.
C9_ArraySplitsTrimsDropsEmpty ==
    (pc = "formatted" /\ input.field.metadata.schema.type = TArray) =>
        LET allowed == input.field.metadata.allowedValues
            items == input.field.metadata.schema.items
            fv == run.format.formattedValue
        IN  /\ input.value.t = "str" =>
                LET P == RemainingPieces(input.value.s)
                IN  /\ run.format.success
                    /\ fv.t = "arr"
                    /\ Len(fv.a) = Len(P)
                    /\ \A i \in 1..Len(P) :
                          /\ items = TOption =>
                               LET M == NamedBy(allowed, P[i])
                                        \cup {k \in 1..Len(allowed) : allowed[k].id = P[i]}
                               IN  \E v \in IF M = {} THEN {P[i]}
                                              ELSE {TokenOrName(allowed[k]) : k \in M} :
                                       fv.a[i] = JsObj([value |-> JsStr(v)])
                          /\ items = TUser =>
                               fv.a[i] = JsObj([accountId |-> JsStr(P[i])])
            /\ (input.value.t = "arr"
                  /\ \A i \in 1..Len(input.value.a) : IsWrapper(input.value.a[i])) =>
                    run.format.success /\ fv = input.value

\* C9 witness: a string with an empty piece and pieces to trim was formatted to
\* two elements or more
C9_Witness ==
    /\ FormattedString(TArray)
    /\ input.field.metadata.schema.items = TOption
    /\ Len(RemainingPieces(input.value.s)) < Len(TrimmedPieces(input.value.s))
    /\ \E k \in 1..Len(split(input.value.s, ",")) :
           split(input.value.s, ",")[k] # trim(split(input.value.s, ",")[k])
    /\ Len(run.format.formattedValue.a) >= 2

\* a string that denotes a number: an optional sign and digits, white space around
DenotesNumber(s) ==
    LET u == trim(s)
        d == IF u # <<>> /\ u[1] \in {"-", "+"} THEN Tail(u) ELSE u
    IN  d # <<>> /\ \A i \in 1..Len(d) : IsDigit(d[i])

\* C10 (as claimed): a number field gives success with a number only when the raw
\* value is a number or a string that denotes a number; any other raw value, the
\* empty string included, gives success=false with an error and no formatted value.
C10_NumberRejectsUnparseable ==
    (pc = "formatted" /\ input.field.metadata.schema.type = TNumber) =>
        LET parseable == \/ input.value.t = "num"
                         \/ input.value.t = "str" /\ DenotesNumber(input.value.s)
        IN  IF parseable
            THEN run.format.success /\ run.format.formattedValue.t = "num"
            ELSE /\ ~run.format.success
                 /\ run.format.error # <<>>
                 /\ run.format.formattedValue = JsUndef

\* C10 restricted to raw strings that are not empty after trimming: these are
\* accepted exactly when they denote a number
C10_NonEmptyStrings ==
    (/\ pc = "formatted" /\ input.field.metadata.schema.type = TNumber
     /\ input.value.t = "str" /\ trim(input.value.s) # <<>>) =>
        IF DenotesNumber(input.value.s)
        THEN run.format.success /\ run.format.formattedValue.t = "num"
        ELSE /\ ~run.format.success
             /\ run.format.error # <<>>
             /\ run.format.formattedValue = JsUndef

----------------------------------------------------------------------------
(* A JavaScript Map as the sequence of its entries in insertion order *)

MapHas(m, k) == \E i \in 1..Len(m) : m[i].key = k

\* Map.prototype.get; JsUndef when the key is absent
MapGet(m, k) ==
    IF MapHas(m, k) THEN m[CHOOSE i \in 1..Len(m) : m[i].key = k].val ELSE JsUndef

\* Map.prototype.set: an existing key keeps its position
MapSet(m, k, v) ==
    IF MapHas(m, k)
    THEN [i \in 1..Len(m) |-> IF m[i].key = k THEN [key |-> k, val |-> v] ELSE m[i]]
    ELSE Append(m, [key |-> k, val |-> v])

----------------------------------------------------------------------------
(* value-formatter.ts: formatFieldValues; field-resolver.ts:               *)
(* validateFieldValues, formatAllowedValues, formatValidationErrors        *)

\* line 558-578 of value-formatter.ts: the loop body for one pair
formatFieldValuesStep(acc, resolvedFields, pair) ==
    IF pair.name \notin DOMAIN resolvedFields
    THEN [acc EXCEPT !.formatted =
             MapSet(acc.formatted, pair.name,
                    [value |-> pair.value,
                     description |-> <<"unresolved (pass-through)">>])]
    ELSE CHOOSE next \in
             { IF result.success
               THEN [acc EXCEPT !.formatted =
                        MapSet(acc.formatted, pair.name,
                               [value |-> result.formattedValue,
                                description |-> OrStr(result.formatDescription,
                                                      <<"formatted">>)])]
               ELSE [acc EXCEPT
                        !.errors = Append(acc.errors,
                                       [name |-> pair.name,
                                        error |-> OrStr(result.error,
                                                        <<"Unknown formatting error">>)]),
                        !.success = FALSE] :
               result \in {formatFieldValue(resolvedFields[pair.name], pair.value)} } : TRUE

\* the loop of formatFieldValues after the first n pairs
RECURSIVE formatFieldValuesLoop(_, _, _)
formatFieldValuesLoop(resolvedFields, fieldPairs, n) ==
    IF n = 0 THEN [success |-> TRUE, formatted |-> <<>>, errors |-> <<>>]
    ELSE CHOOSE r \in
             { formatFieldValuesStep(acc, resolvedFields, fieldPairs[n]) :
               acc \in {formatFieldValuesLoop(resolvedFields, fieldPairs, n - 1)} } : TRUE

\* line 546-581 of value-formatter.ts
formatFieldValues(resolvedFields, fieldPairs) ==
    formatFieldValuesLoop(resolvedFields, fieldPairs, Len(fieldPairs))

\* line 467-481 of field-resolver.ts: the loop body for one pair
validateFieldValuesStep(acc, resolvedFields, pair) ==
    IF pair.name \notin DOMAIN resolvedFields
    THEN [acc EXCEPT !.results = MapSet(acc.results, pair.name, ValidationOk(pair.value))]
    ELSE CHOOSE next \in
             { [results |-> MapSet(acc.results, pair.name, result),
                valid |-> acc.valid /\ result.valid] :
               result \in {validateFieldValue(resolvedFields[pair.name], pair.value)} } : TRUE

\* the loop of validateFieldValues after the first n pairs
RECURSIVE validateFieldValuesLoop(_, _, _)
validateFieldValuesLoop(resolvedFields, fieldPairs, n) ==
    IF n = 0 THEN [valid |-> TRUE, results |-> <<>>]
    ELSE CHOOSE r \in
             { validateFieldValuesStep(acc, resolvedFields, fieldPairs[n]) :
               acc \in {validateFieldValuesLoop(resolvedFields, fieldPairs, n - 1)} } : TRUE

\* line 457-484 of field-resolver.ts
validateFieldValues(resolvedFields, fieldPairs) ==
    validateFieldValuesLoop(resolvedFields, fieldPairs, Len(fieldPairs))

\* line 439-452 of field-resolver.ts, maxDisplay = 10
formatAllowedValues(allowedValues) ==
    LET values == [k \in 1..Len(allowedValues) |->
                      OrStr(allowedValues[k].value, allowedValues[k].name)]
    IN  IF Len(values) <= 10 THEN join(values, <<", ">>)
        ELSE join(slice0(values, 10), <<", ">>)
                 \o <<", ... and ">> \o NumToStr(Len(values) - 10) \o <<" more">>

\* line 495-509 of field-resolver.ts: the lines pushed for one result
ValidationErrorLines(result) ==
    IF result.valid \/ result.error = <<>> THEN <<>>
    ELSE << <<"Error: ">> \o result.error >>
         \o (IF Len(result.suggestions) > 0
             THEN << <<"  Did you mean: ">> \o result.suggestions[1] \o <<"?">> >>
             ELSE <<>>)
         \o (IF Len(result.allowedValues) > 0
             THEN << <<"  Valid options: ">> \o formatAllowedValues(result.allowedValues) >>
             ELSE <<>>)
         \o << <<>> >>

RECURSIVE Flatten(_)
Flatten(ss) == IF ss = <<>> THEN <<>> ELSE Head(ss) \o Flatten(Tail(ss))

\* line 489-513 of field-resolver.ts: the lines of the text returned;
\* trimEnd removes the blank line after the last error
formatValidationErrors(results) ==
    LET lines == Flatten([i \in 1..Len(results) |-> ValidationErrorLines(results[i].val)])
    IN  IF lines = <<>> THEN <<>> ELSE SubSeq(lines, 1, Len(lines) - 1)

----------------------------------------------------------------------------
(* embedded-plugin.ts: parseCustomFieldPairs and processCustomFields *)

\* line 319-343: what one argument is parsed to; skipped when it has no '=' or
\* an empty name
ParsedPair(field) ==
    LET eqIndex == indexOf(field, "=")
        name == trim(SubSeq(field, 1, eqIndex))
        valueStr == trim(SubSeq(field, eqIndex + 2, Len(field)))
        parsed == JSONparse(valueStr)
    IN  IF eqIndex = -1 \/ name = <<>>
        THEN [skipped |-> TRUE, name |-> <<>>, value |-> JsUndef]
        ELSE [skipped |-> FALSE, name |-> name,
              value |-> IF parsed.throws THEN JsStr(valueStr) ELSE parsed.value]

\* line 309-347
parseCustomFieldPairs(fields) ==
    LET parsed == [i \in 1..Len(fields) |-> ParsedPair(fields[i])]
        kept == SelectIdx(Len(parsed), {i \in 1..Len(parsed) : ~parsed[i].skipped})
    IN  Tuple([q \in 1..Len(kept) |->
                  [name |-> parsed[kept[q]].name, value |-> parsed[kept[q]].value]])

\* line 553-556: the pairs with their formatted values
FormattedPairs(fieldPairs, formatted) ==
    [i \in 1..Len(fieldPairs) |->
        [name |-> fieldPairs[i].name,
         value |-> IF MapHas(formatted, fieldPairs[i].name)
                   THEN MapGet(formatted, fieldPairs[i].name).value
                   ELSE JsUndef]]

\* line 569-576: customFields[resolvedField.key] = formattedEntry.value for every
\* pair in order, so the last pair of a key gives its value
BuildCustomFields(fieldPairs, resolved, formatted) ==
    LET set == {i \in 1..Len(fieldPairs) :
                   /\ fieldPairs[i].name \in DOMAIN resolved
                   /\ MapHas(formatted, fieldPairs[i].name)}
        keyOf(i) == resolved[fieldPairs[i].name].key
    IN  [key \in {keyOf(i) : i \in set} |->
            LET lastI == CHOOSE i \in set :
                             keyOf(i) = key /\ \A j \in set : keyOf(j) = key => j <= i
            IN  MapGet(formatted, fieldPairs[lastI].name).value]

NoOutcome ==
    [exitCode |-> 0, stage |-> "none", returned |-> "nothing", customFields |-> <<>>,
     stderr |-> <<>>, formatted |-> <<>>, results |-> <<>>]

\* process.exit(1) at a stage, after the console.error lines
Exit(stage, stderr, formatted, results) ==
    [exitCode |-> 1, stage |-> stage, returned |-> "nothing", customFields |-> <<>>,
     stderr |-> stderr, formatted |-> formatted, results |-> results]

\* line 510-515: the lines written for the resolution errors
ResolutionErrorLines(errors) ==
    Flatten([i \in 1..Len(errors) |->
                << [line |-> "Error", name |-> errors[i].name, error |-> errors[i].error] >>
                \o (IF Len(errors[i].suggestions) > 0
                    THEN << [line |-> "Did you mean", name |-> errors[i].name,
                             error |-> join(errors[i].suggestions, <<", ">>)] >>
                    ELSE <<>>)])

\* line 537-540: the lines written for the formatting errors
FormatErrorLines(errors) ==
    [i \in 1..Len(errors) |->
        [line |-> "Error formatting", name |-> errors[i].name, error |-> errors[i].error]]

\* line 569-578: the customFields object is built and returned
Returned(fieldPairs, resolved, formatted, results) ==
    [exitCode |-> 0, stage |-> "done", returned |-> "customFields",
     customFields |-> BuildCustomFields(fieldPairs, resolved, formatted),
     stderr |-> <<>>, formatted |-> formatted, results |-> results]

\* line 537-578: formatFieldValues has returned f
AfterFormatting(fieldPairs, resolved, f) ==
    IF ~f.success
    THEN Exit("formatting", FormatErrorLines(f.errors), f.formatted, <<>>)
    ELSE CHOOSE outcome \in
             { IF ~v.valid
               THEN Exit("validation", formatValidationErrors(v.results),
                         f.formatted, v.results)
               ELSE Returned(fieldPairs, resolved, f.formatted, v.results) :
               v \in {validateFieldValues(resolved,
                          FormattedPairs(fieldPairs, f.formatted))} } : TRUE

\* line 510-578: what processCustomFields does once resolveFieldNames has returned
AfterResolution(fieldPairs, resolved, errors) ==
    IF Len(errors) > 0
    THEN Exit("resolution", ResolutionErrorLines(errors), <<>>, <<>>)
    ELSE CHOOSE outcome \in
             { AfterFormatting(fieldPairs, resolved, f) :
               f \in {formatFieldValues(resolved, fieldPairs)} } : TRUE

\* the --field arguments a user may give
FieldArgs ==
    { <<"S","e","v","e","r","i","t","y","=","h","i","g","h">>, <<"S","e","v","e","r","i","t","y","=","B","a","d">>, <<"S","e","v","e","r","i","t","y"," ","="," ","H","i","g","h">>, <<"s","e","v","e","r","i","t","y","=","M","i","n","o","r">>,
      <<"S","e","v","r","i","t","y","=","H","i","g","h">>, <<"P","o","i","n","t","s","=","5">>, <<"P","o","i","n","t","s","=","a","b","c">>, <<"P","o","i","n","t","s","=">>, <<"T","e","a","m","s","=","C","o","r","e",","," ","W","e","b">>,
      <<"c","u","s","t","o","m","f","i","e","l","d","_","9","9","=","\"","7","\"">>, <<"P","o","i","n","t","s">>, <<"=","5">> }

\* arguments in one processCustomFields call
MaxArgs == 2

InitPipeline ==
    /\ fieldMetadataCache = <<>>
    /\ providerCalls = 0
    /\ fetchedOk = <<>>
    /\ last = NoOp
    /\ pc = "parse"
    /\ \E fieldArgs \in Seqs(FieldArgs, MaxArgs) :
           input = [projectKey |-> ProjP, issueType |-> Bug, fieldArgs |-> fieldArgs,
                    fieldNames |-> <<>>]
    /\ run = [fieldPairs |-> <<>>, batch |-> EmptyBatch, outcome |-> NoOutcome]

\* line 492-496: the arguments are parsed; no pair, null is returned
PcfParse ==
    /\ pc = "parse"
    /\ \E fieldPairs \in {parseCustomFieldPairs(input.fieldArgs)} :
           /\ run' = [run EXCEPT
                         !.fieldPairs = fieldPairs,
                         !.outcome = IF Len(fieldPairs) = 0
                                     THEN [NoOutcome EXCEPT !.returned = "null",
                                                            !.stage = "done"]
                                     ELSE NoOutcome]
           /\ input' = [input EXCEPT
                           !.fieldNames = [i \in 1..Len(fieldPairs) |-> fieldPairs[i].name]]
           /\ pc' = IF Len(fieldPairs) = 0 THEN "returned" ELSE "resolve"
    /\ UNCHANGED cacheVars

\* line 326-338 of field-resolver.ts, inside the resolveFieldNames call of line 503
PcfResolveOne(answer) ==
    /\ pc = "resolve"
    /\ MoreNames(run.batch, input.fieldNames)
    /\ \E name \in {input.fieldNames[run.batch.i]} :
       \E res \in {resolveFieldName(fieldMetadataCache, answer, input.projectKey,
                                    input.issueType, name)} :
           /\ fieldMetadataCache' = res.fetch.cache
           /\ providerCalls' = providerCalls + (IF res.fetch.invoked THEN 1 ELSE 0)
           /\ run' = [run EXCEPT
                         !.batch = [resolveFieldNamesStep(run.batch, name, res) EXCEPT
                                       !.results = Append(run.batch.results,
                                                          History(name, res))]]
    /\ UNCHANGED <<fetchedOk, last, pc, input>>

\* line 510-578: resolveFieldNames has returned; errors are reported and the
\* process exits, or the values are formatted, validated and returned
PcfFinish ==
    /\ pc = "resolve"
    /\ ~MoreNames(run.batch, input.fieldNames)
    /\ \E outcome \in {AfterResolution(run.fieldPairs, run.batch.resolved,
                                         run.batch.errors)} :
           /\ run' = [run EXCEPT !.outcome = outcome]
           /\ pc' = IF outcome.exitCode = 0 THEN "returned" ELSE "exited"
    /\ UNCHANGED <<cacheVars, input>>

NextPipeline ==
    \/ PcfParse
    \/ \E answer \in ProviderAnswers : PcfResolveOne(answer)
    \/ PcfFinish

SpecPipeline == InitPipeline /\ [][NextPipeline]_vars

----------------------------------------------------------------------------
(* Claims about processCustomFields, checked under SpecPipeline *)

\* pair i of the batch resolved, formatted and validated successfully: its name
\* resolved, formatFieldValue succeeds on its value, and validateFieldValue
\* accepts the value formatted from it
PairPasses(i) ==
    LET pair == run.fieldPairs[i]
        res == run.batch.results[i].result
    IN  /\ res.success
        /\ \E f \in {formatFieldValue(res.resolved, pair.value)} :
               f.success /\ validateFieldValue(res.resolved, f.formattedValue).valid

MapReturned == pc = "returned" /\ run.outcome.returned = "customFields"

\* C1 (as claimed): a customFields map is returned only when every parsed pair of
\* the batch resolved, formatted and validated successfully; if any pair fails,
\* the run ends with exit code 1 and no map.
C1_MapOnlyWhenEveryPairPasses ==
    pc \in {"returned", "exited"} /\ Len(run.fieldPairs) > 0 =>
        IF \A i \in 1..Len(run.fieldPairs) : PairPasses(i)
        THEN MapReturned
        ELSE /\ pc = "exited"
             /\ run.outcome.exitCode = 1
             /\ run.outcome.returned = "nothing"
             /\ run.outcome.customFields = <<>>

\* C1 for batches that name no field twice: the claim holds
C1_DistinctNames ==
    (/\ pc \in {"returned", "exited"} /\ Len(run.fieldPairs) > 0
     /\ IsDistinct(input.fieldNames)) =>
        IF \A i \in 1..Len(run.fieldPairs) : PairPasses(i)
        THEN MapReturned
        ELSE /\ pc = "exited"
             /\ run.outcome.exitCode = 1
             /\ run.outcome.returned = "nothing"
             /\ run.outcome.customFields = <<>>

----------------------------------------------------------------------------
(* Further claims about the formatter and the validator, under SpecValue *)

\* the message contains the field's display name, its id or its name as typed
NamesField(message, field) ==
    \/ includes(message, field.displayName)
    \/ includes(message, field.key)
    \/ includes(message, field.originalName)

\* C11: formatFieldValue for a date-typed field and a value that is not a date
\* returns success=false, no formatted value, and an error message that names
\* the field
C11_DateErrorNamesField ==
    (/\ pc = "formatted" /\ input.field.type = TDate
     /\ ~IsIsoDate(ToStr(input.value))) =>
        /\ ~run.format.success
        /\ run.format.formattedValue = JsUndef
        /\ NamesField(run.format.error, input.field)

\* what the code does for such a value: the failure's message quotes the value
C11_DateErrorQuotesValue ==
    (/\ pc = "formatted" /\ input.field.type = TDate
     /\ ~IsIsoDate(ToStr(input.value))) =>
        /\ ~run.format.success
        /\ run.format.formattedValue = JsUndef
        /\ run.format.error = <<"Invalid date value: ">> \o ToStr(input.value)
                                 \o <<". Use format YYYY-MM-DD">>

\* an allowed value with a name and no value token
NameWithoutToken(av) == av.name # <<>> /\ av.value = <<>>

\* an allowed value with an id and neither a name nor a value token
OnlyId(av) == av.id # <<>> /\ av.name = <<>> /\ av.value = <<>>

\* formatFieldValue has run on an array field whose item type has no branch of
\* its own, with allowed values, for a value that is not already an array of
\* wrapper objects
UnrecognizedItemsFormatted ==
    /\ pc = "formatted"
    /\ input.field.type = TArray
    /\ input.field.metadata.schema.items \notin {TOption, TString, TUser}
    /\ input.field.metadata.allowedValues # <<>>
    /\ ~isFormattedArray(input.value)

\* every element of the formatted array is an object with the one property prop
EachWrappedAs(prop) ==
    /\ run.format.success
    /\ run.format.formattedValue.t = "arr"
    /\ \A i \in 1..Len(run.format.formattedValue.a) :
           /\ run.format.formattedValue.a[i].t = "obj"
           /\ DOMAIN run.format.formattedValue.a[i].o = {prop}

\* C19 as stated: for an array field whose item type is not a recognized one,
\* each element is wrapped as {name} if any allowed value has a name without a
\* value token, else as {value} if any allowed value has a value token, else as
\* {id} if every sampled (first three) allowed value has only an id
C19_StyleFromAnyAllowedValue ==
    UnrecognizedItemsFormatted =>
        LET allowed == input.field.metadata.allowedValues
            sample == slice0(allowed, 3)
        IN  IF \E k \in 1..Len(allowed) : NameWithoutToken(allowed[k])
            THEN EachWrappedAs("name")
            ELSE IF \E k \in 1..Len(allowed) : allowed[k].value # <<>>
            THEN EachWrappedAs("value")
            ELSE (\A k \in 1..Len(sample) : OnlyId(sample[k])) => EachWrappedAs("id")

\* C19 amended: the style is decided by the first three allowed values only:
\* {name} if one of them has a name without a value token, else {value} if one
\* of them has a value token, else {id} if each of them has only an id
C19_StyleFromFirstThree ==
    UnrecognizedItemsFormatted =>
        LET sample == slice0(input.field.metadata.allowedValues, 3)
        IN  IF \E k \in 1..Len(sample) : NameWithoutToken(sample[k])
            THEN EachWrappedAs("name")
            ELSE IF \E k \in 1..Len(sample) : sample[k].value # <<>>
            THEN EachWrappedAs("value")
            ELSE (\A k \in 1..Len(sample) : OnlyId(sample[k])) => EachWrappedAs("id")

\* the field Tiers, whose fourth allowed value alone has a name without a
\* token, formats 'gold, Iron,TOP' to three {value} wrappers
C19_Witness ==
    /\ UnrecognizedItemsFormatted
    /\ input.field.displayName = Tiers
    /\ input.value = JsStr(<<"g","o","l","d",","," ","I","r","o","n",",","T","O","P">>)
    /\ run.format.formattedValue =
           JsArr(<<JsObj([value |-> JsStr(Gold)]), JsObj([value |-> JsStr(Iron)]),
                   JsObj([value |-> JsStr(Top)])>>)

\* validateFieldValue has run on the value as given, for a field whose allowed
\* values are [{id:'1',name:'High'},{id:'2',name:'Low'}]
HighLowValidated(value) ==
    /\ pc = "validated"
    /\ input.field.metadata.allowedValues = PriorityAllowed
    /\ input.value = value

\* C20 as stated: with allowed values High (id 1) and Low (id 2), validating
\* {value:'high'} succeeds, and validating {value:'Critical'} fails and returns
\* both candidates, High and Low, as suggestions
C20_CriticalSuggestsBoth ==
    /\ HighLowValidated(JsObj([value |-> JsStr(HighLc)])) => run.validation.valid
    /\ HighLowValidated(JsObj([value |-> JsStr(Critical)])) =>
           /\ ~run.validation.valid
           /\ Range(run.validation.suggestions) = {High, Low}

\* C20 amended: validating {value:'high'} succeeds, and validating
\* {value:'Critical'} fails with no suggestion, both candidates being further
\* than max(3, ceil(8 / 2)) = 4 edits from 'critical'; High and Low are returned
\* as the failure's allowed values
C20_CriticalSuggestsNone ==
    /\ HighLowValidated(JsObj([value |-> JsStr(HighLc)])) =>
           /\ run.validation.valid
           /\ run.validation.normalizedValue = input.value
    /\ HighLowValidated(JsObj([value |-> JsStr(Critical)])) =>
           /\ ~run.validation.valid
           /\ run.validation.suggestions = <<>>
           /\ run.validation.allowedValues = PriorityAllowed
           /\ levenshteinDistance(toLowerCase(Critical), toLowerCase(High)) > 4
           /\ levenshteinDistance(toLowerCase(Critical), toLowerCase(Low)) > 4

C20_Witness ==
    /\ HighLowValidated(JsObj([value |-> JsStr(Critical)]))
    /\ input.field.displayName = PriorityName
    /\ ~run.validation.valid

----------------------------------------------------------------------------
(* Failed fetches, checked under SpecCache *)

\* the index of the project of `answer` the code finds for projectKey, 0 when
\* the answer lacks the project
ProjectOf(answer, projectKey) ==
    FirstIdx(Len(answer.projects),
        {k \in 1..Len(answer.projects) :
            EqualIgnoringCase(answer.projects[k].key, projectKey)})

\* the names of the issue types of a project, in the provider's order
IssueTypeNames(project) ==
    [k \in 1..Len(project.issuetypes) |-> project.issuetypes[k].name]

\* C17: when the provider's answer lacks the project, or the project lacks the
\* issue type, fetchFieldMetadata fails with a 'project not found' or an 'issue
\* type not found' error, the latter listing every available issue-type name; a
\* failed fetch, a throwing provider call included, leaves the cache unchanged,
\* and a fetch of the same pair that follows it invokes the provider again
C17_FailedFetchKeepsCache ==
    [][ /\ (last'.op = "fetch" /\ last'.invoked /\ last'.answer # ProviderThrows) =>
              LET p == ProjectOf(last'.answer, last'.projectKey)
              IN  IF p = 0
                  THEN ~last'.ok /\ last'.error = ProjectNotFound(last'.projectKey)
                  ELSE LET names == IssueTypeNames(last'.answer.projects[p])
                       IN  (\A k \in 1..Len(names) :
                               ~EqualIgnoringCase(names[k], last'.issueType)) =>
                                  /\ ~last'.ok
                                  /\ last'.error.kind = "issueTypeNotFound"
                                  /\ last'.error.issueType = last'.issueType
                                  /\ last'.error.projectKey = last'.projectKey
                                  /\ last'.error.available = join(names, <<",", " ">>)
        /\ (last'.op = "fetch" /\ ~last'.ok) =>
              /\ last'.invoked
              /\ fieldMetadataCache' = fieldMetadataCache
        /\ (/\ last.op = "fetch" /\ ~last.ok /\ last'.op = "fetch"
            /\ last'.projectKey = last.projectKey
            /\ last'.issueType = last.issueType) => last'.invoked
      ]_vars

\* a fetch of (P, Task) has failed with the issue types Bug and X:Y listed,
\* after an earlier provider call, and the cache has no entry for the pair
C17_Witness ==
    /\ last.op = "fetch" /\ ~last.ok
    /\ last.projectKey = ProjP /\ last.issueType = Task
    /\ last.error = IssueTypeNotFound(ProjP, Task, <<Bug, TypeXY>>)
    /\ providerCalls >= 2
    /\ getCacheKey(ProjP, Task) \notin DOMAIN fieldMetadataCache

----------------------------------------------------------------------------
(* resolveFieldNames with the provider call as a step of its own: a call   *)
(* of client.getCreateMeta is started by one step and settles in a later   *)
(* one, so that calls in flight are part of the state.                     *)

MaxAwaitBatch == 3

\* names a user may type: an internal id, a display name, an unknown name
AwaitNames == {Cf10, Summary, Qq}

\* the batch state, the indices of the names whose provider call is in flight,
\* and the number of names whose resolution has started
InitAwait ==
    /\ fieldMetadataCache = <<>>
    /\ providerCalls = 0
    /\ fetchedOk = <<>>
    /\ last = NoOp
    /\ pc = "resolving"
    /\ \E pair \in ResolvePairs, fieldNames \in Seqs(AwaitNames, MaxAwaitBatch) :
           input = [projectKey |-> pair[1], issueType |-> pair[2],
                    fieldNames |-> fieldNames]
    /\ run = [batch |-> EmptyBatch, pending |-> {}, started |-> 0]

\* faulty variant of Awaited: the loop goes on without awaiting
Awaited_NoAwait(pending) == TRUE

\* line 327: `await resolveFieldName(...)`: the loop body goes on only when the
\* promise of the name before has settled
Awaited(pending) == pending = {}

\* what the batch keeps of one resolution, and how its fetch went
Settled(name, res) ==
    [name |-> name, result |-> res.result, fetchOk |-> res.fetch.ok,
     invoked |-> res.fetch.invoked, threw |-> res.fetch.error = ProviderError]

\* line 326-338 after the promise of name k has settled with res
AfterSettled(r, k, name, res) ==
    [ batch |-> [resolveFieldNamesStep(r.batch, name, res) EXCEPT
                    !.results = Append(r.batch.results, Settled(name, res))],
      pending |-> r.pending \ {k},
      started |-> r.started ]

\* the next name finds its pair in the cache: fetchFieldMetadata returns the
\* cached map and no provider call is made
ResolveCached ==
    /\ pc = "resolving"
    /\ run.started < Len(input.fieldNames)
    /\ Awaited(run.pending)
    /\ getCacheKey(input.projectKey, input.issueType) \in DOMAIN fieldMetadataCache
    /\ \E res \in {resolveFieldName(fieldMetadataCache, ProviderThrows,
                       input.projectKey, input.issueType,
                       input.fieldNames[run.started + 1])} :
           run' = AfterSettled([run EXCEPT !.started = @ + 1], run.started + 1,
                               input.fieldNames[run.started + 1], res)
    /\ UNCHANGED <<cacheVars, pc, input>>

\* line 133: the next name does not find its pair in the cache, and
\* client.getCreateMeta is called
CallProvider ==
    /\ pc = "resolving"
    /\ run.started < Len(input.fieldNames)
    /\ Awaited(run.pending)
    /\ getCacheKey(input.projectKey, input.issueType) \notin DOMAIN fieldMetadataCache
    /\ run' = [run EXCEPT !.started = @ + 1, !.pending = @ \cup {run.started + 1}]
    /\ providerCalls' = providerCalls + 1
    /\ UNCHANGED <<fieldMetadataCache, fetchedOk, last, pc, input>>

\* the cache without the entry of a pair
WithoutKey(cache, key) == [c \in DOMAIN cache \ {key} |-> cache[c]]

\* line 133-168, 211-299: a provider call in flight settles (it throws or it
\* answers) and the resolution of its name is completed
ProviderSettles(answer) ==
    /\ pc = "resolving"
    /\ \E k \in run.pending :
         \E res \in {resolveFieldName(
                        WithoutKey(fieldMetadataCache,
                                   getCacheKey(input.projectKey, input.issueType)),
                        answer, input.projectKey, input.issueType,
                        input.fieldNames[k])} :
            /\ fieldMetadataCache' = res.fetch.cache @@ fieldMetadataCache
            /\ run' = AfterSettled(run, k, input.fieldNames[k], res)
    /\ UNCHANGED <<providerCalls, fetchedOk, last, pc, input>>

\* line 340: every name has been resolved
AwaitReturn ==
    /\ pc = "resolving"
    /\ run.started = Len(input.fieldNames)
    /\ run.pending = {}
    /\ pc' = "done"
    /\ UNCHANGED <<cacheVars, input, run>>

NextAwait ==
    \/ ResolveCached
    \/ CallProvider
    \/ \E answer \in ProviderAnswers : ProviderSettles(answer)
    \/ AwaitReturn

SpecAwait == InitAwait /\ [][NextAwait]_vars

\* the indices of the names whose fetch failed
FailedFetches == {k \in 1..Len(run.batch.results) : ~run.batch.results[k].fetchOk}

\* the names are resolved in order, each after the one before has settled, so
\* at most one provider call is in flight, and it is the call of the name that
\* follows the settled ones
OneAtATime ==
    /\ Cardinality(run.pending) <= 1
    /\ run.pending \subseteq {Len(run.batch.results) + 1}
    /\ run.started = Len(run.batch.results) + Cardinality(run.pending)
    /\ \A k \in 1..Len(run.batch.results) :
           run.batch.results[k].name = input.fieldNames[k]

\* C18 as stated: at most one provider call is in flight at any moment of a
\* batch; on an empty cache with a provider that never throws, a batch of any
\* size invokes the provider exactly once; a fetch failure for one name neither
\* overlaps with nor prevents the fetch for a later name
C18_AnyBatchInvokesOnce ==
    /\ OneAtATime
    /\ pc = "done" =>
          /\ Len(run.batch.results) = Len(input.fieldNames)
          /\ (\A k \in 1..Len(run.batch.results) : ~run.batch.results[k].threw)
                => providerCalls = 1

\* C18 amended: at most one provider call is in flight at any moment of a
\* batch; on an empty cache every name whose fetch fails invokes the provider,
\* and the first name whose fetch succeeds invokes it for the last time, so a
\* batch with a name to resolve, all of whose fetches succeed, invokes the
\* provider exactly once; a fetch failure for one name neither overlaps with
\* nor prevents the fetch for a later name
C18_OneCallPerFailureThenOne ==
    /\ OneAtATime
    /\ \A k \in 1..Len(run.batch.results) :
          run.batch.results[k].invoked <=>
              \A j \in 1..(k - 1) : ~run.batch.results[j].fetchOk
    /\ pc = "done" =>
          /\ Len(run.batch.results) = Len(input.fieldNames)
          /\ providerCalls = Cardinality(FailedFetches)
                 + (IF FailedFetches = 1..Len(input.fieldNames) THEN 0 ELSE 1)
          /\ (input.fieldNames # <<>> /\ FailedFetches = {}) => providerCalls = 1

\* a batch of three names whose first fetch failed because the provider threw
\* and whose second fetch succeeded: two provider calls, three names resolved
C18_Witness ==
    /\ pc = "done"
    /\ Len(input.fieldNames) = 3
    /\ run.batch.results[1].threw
    /\ run.batch.results[2].fetchOk /\ run.batch.results[2].invoked
    /\ ~run.batch.results[3].invoked
    /\ providerCalls = 2

----------------------------------------------------------------------------
(* field-resolver.ts, line 515-840: the document (ADF) to markup converter. *)
(* A node is a record of its type, its attributes, its children, and, for  *)
(* a text node, its text and its marks; an absent attribute is the empty   *)
(* string (level: 0), an absent content the empty sequence.                *)

NoAttrs == [level |-> 0, language |-> <<>>, url |-> <<>>, state |-> <<>>]

Node(type, attrs, content) ==
    [t |-> "node", type |-> type, attrs |-> attrs, content |-> content,
     text |-> <<>>, marks |-> <<>>]

Mark(type, href) == [type |-> type, href |-> href]

Text(text, marks) ==
    [t |-> "node", type |-> "text", attrs |-> NoAttrs, content |-> <<>>,
     text |-> text, marks |-> marks]

\* the character backtick, which a string of this language cannot hold
BT == "backtick"

\* String.prototype.repeat
repeat(s, n) == join([i \in 1..n |-> s], <<>>)

\* the number of occurrences of the character c in s
CountChar(s, c) == Cardinality({i \in 1..Len(s) : s[i] = c})

\* what a walk does besides building markup, in order: calls of addWarning,
\* and at most one throw, after which nothing follows
Warn(type, message) == [throw |-> FALSE, type |-> type, message |-> message]

Throw(message) == [throw |-> TRUE, type |-> "", message |-> message]

Walked(md, events) == [md |-> md, events |-> events]

\* line 680-711: one mark applied to the text
MarkedText(text, mark) ==
    CASE mark.type = "strong" -> <<"*","*">> \o text \o <<"*","*">>
      [] mark.type = "em" -> <<"*">> \o text \o <<"*">>
      [] mark.type = "code" -> <<BT>> \o text \o <<BT>>
      [] mark.type = "strike" -> <<"~","~">> \o text \o <<"~","~">>
      [] mark.type = "link" ->
            <<"[">> \o text \o <<"]","(">> \o OrStr(mark.href, <<"#">>) \o <<")">>
      [] mark.type = "underline" -> <<"*">> \o text \o <<"*">>
      [] OTHER -> text

\* line 696-709: the warning a mark records, if any
MarkEvents(mark) ==
    CASE mark.type \in {"strong", "em", "code", "strike", "link"} -> <<>>
      [] mark.type = "underline" ->
            <<Warn("underline", <<"Underline converted to emphasis">>)>>
      [] mark.type = "textColor" ->
            <<Warn("textColor", <<"Text color formatting removed">>)>>
      [] OTHER -> <<Warn(mark.type, <<"Unsupported mark type: ", mark.type>>)>>

\* line 675-714: the loop over the marks, from mark k on
RECURSIVE ApplyMarks(_, _, _)
ApplyMarks(w, marks, k) ==
    IF k > Len(marks) THEN w
    ELSE ApplyMarks(Walked(MarkedText(w.md, marks[k]),
                           w.events \o MarkEvents(marks[k])), marks, k + 1)

\* line 666-717
convertMarks(node) == ApplyMarks(Walked(node.text, <<>>), node.marks, 1)

\* line 594-621: the markup of a table, given the markup of its rows.
\* Array(columnCount) throws a RangeError when the first row has no '|'.
TableMarkdown(rows) ==
    IF Len(rows) = 0 \/ rows[1] = <<>> THEN Walked(<<>>, <<>>)
    ELSE IF CountChar(rows[1], "|") = 0
    THEN Walked(<<>>, <<Throw(<<"Invalid array length">>)>>)
    ELSE LET columnCount == CountChar(rows[1], "|") - 1
             separator == <<"|">> \o join([i \in 1..columnCount |-> <<"-","-","-">>], <<"|">>)
                                  \o <<"|">>
             emptyHeader == <<"|">> \o join([i \in 1..columnCount |-> <<" ">>], <<"|">>)
                                    \o <<"|">>
             lines == IF Len(rows) = 1
                      THEN <<emptyHeader, separator, rows[1]>>
                      ELSE <<rows[1], separator>> \o Tail(rows)
         IN  Walked(<<"\n">> \o join(lines, <<"\n">>) \o <<"\n">>, <<>>)

\* line 530-664: the switch, given what the walks of the children gave (kids)
NodeMarkdown(node, kids) ==
    LET K == [i \in 1..Len(kids) |-> kids[i].md]
        E == Flatten([i \in 1..Len(kids) |-> kids[i].events])
        type == node.type
    IN  CASE type = "doc" -> Walked(join(K, <<"\n","\n">>), E)
          [] type = "text" -> convertMarks(node)
          [] type = "paragraph" -> Walked(join(K, <<>>), E)
          [] type = "heading" ->
                Walked(repeat(<<"#">>, IF node.attrs.level = 0 THEN 1 ELSE node.attrs.level)
                           \o <<" ">> \o join(K, <<>>), E)
          [] type = "hardBreak" -> Walked(<<"\n">>, <<>>)
          [] type \in {"inlineCard", "blockCard", "embedCard"} ->
                LET url == OrStr(node.attrs.url, <<"#">>)
                IN  Walked(<<"[">> \o url \o <<"]","(">> \o url \o <<")">>, <<>>)
          [] type = "blockquote" -> Walked(<<">"," ">> \o join(K, <<"\n",">"," ">>), E)
          [] type = "codeBlock" ->
                Walked(<<BT, BT, BT>> \o node.attrs.language \o <<"\n">> \o join(K, <<>>)
                           \o <<"\n", BT, BT, BT>>, E)
          [] type = "orderedList" ->
                Walked(join([i \in 1..Len(K) |-> NatToStr(i) \o <<"."," ">> \o K[i]],
                            <<"\n">>), E)
          [] type = "bulletList" ->
                Walked(join([i \in 1..Len(K) |-> <<"-"," ">> \o K[i]], <<"\n">>), E)
          [] type = "listItem" -> Walked(join(K, <<"\n">>), E)
          [] type = "table" ->
                LET table == TableMarkdown(K)
                IN  Walked(table.md, E \o table.events)
          [] type = "tableRow" -> Walked(<<"|">> \o join(K, <<"|">>) \o <<"|">>, E)
          [] type \in {"tableCell", "tableHeader"} -> Walked(join(K, <<>>), E)
          [] type = "rule" -> Walked(<<"-","-","-">>, <<>>)
          [] type = "taskList" ->
                Walked(join(K, <<"\n">>),
                       <<Warn("taskList", <<"Task lists may not render exactly as in Jira">>)>>
                           \o E)
          [] type = "taskItem" ->
                Walked(<<"-"," ","[">>
                           \o (IF node.attrs.state = <<"D","O","N","E">> THEN <<"x">> ELSE <<" ">>)
                           \o <<"]"," ">> \o join(K, <<>>), E)
          [] type \in {"mediaGroup", "mediaSingle", "media"} ->
                Walked(<<"[","M","e","d","i","a"," ","a","t","t","a","c","h","m","e","n","t","]">>,
                       <<Warn("media", <<"Media attachments converted to placeholder">>)>>)
          [] OTHER ->
                Walked(join(K, <<>>),
                       <<Warn(type, <<"Unsupported node type: ", type>>)>> \o E)

\* line 526-664: convertNode(node, warnings): the markup of the node and the
\* calls of addWarning made on the way, the children walked first to last
RECURSIVE convertNode(_)
convertNode(node) ==
    CHOOSE w \in
        { NodeMarkdown(node, kids) :
          kids \in { Tuple([i \in 1..Len(node.content) |-> convertNode(node.content[i])]) } }
        : TRUE

\* property names every object inherits from Object.prototype: `warnings[type]`
\* finds a function (or the prototype) under them although warnings is {}
ObjectPrototypeKeys ==
    {"constructor", "toString", "toLocaleString", "valueOf", "hasOwnProperty",
     "isPrototypeOf", "propertyIsEnumerable", "__proto__"}

\* line 719-730: addWarning(warnings, type, message); warnings is the function
\* from its own keys to their message lists.  Under an inherited name the
\* value found is not an array and `.includes` is not a function: a TypeError.
addWarning(warnings, type, message) ==
    IF type \notin DOMAIN warnings /\ type \in ObjectPrototypeKeys
    THEN [throws |-> TRUE, warnings |-> warnings]
    ELSE LET w == IF type \in DOMAIN warnings THEN warnings
                  ELSE (type :> <<>>) @@ warnings
         IN  [throws |-> FALSE,
              warnings |-> IF \E k \in 1..Len(w[type]) : w[type][k] = message
                           THEN w
                           ELSE [w EXCEPT ![type] = Append(@, message)]]

\* the warnings after the events from event k on, or the message of the first
\* error thrown
RECURSIVE Replay(_, _, _)
Replay(warnings, events, k) ==
    IF k > Len(events) THEN [thrown |-> <<>>, warnings |-> warnings]
    ELSE IF events[k].throw THEN [thrown |-> events[k].message, warnings |-> warnings]
    ELSE LET a == addWarning(warnings, events[k].type, events[k].message)
         IN  IF a.throws
             THEN [thrown |-> <<"warnings[type].includes is not a function">>,
                   warnings |-> warnings]
             ELSE Replay(a.warnings, events, k + 1)

\* line 744-765
commonLanguages ==
    << <<"b","a","s","h">>, <<"j","s","o","n">>, <<"j","a","v","a","s","c","r","i","p","t">>, <<"t","y","p","e","s","c","r","i","p","t">>, <<"p","y","t","h","o","n">>, <<"j","a","v","a">>, <<"c","s","h","a","r","p">>, <<"c","#">>,
       <<"s","q","l">>, <<"x","m","l">>, <<"h","t","m","l">>, <<"c","s","s">>, <<"y","a","m","l">>, <<"y","m","l">>, <<"s","h","e","l","l">>, <<"p","o","w","e","r","s","h","e","l","l">>, <<"g","o">>,
       <<"r","u","s","t">>, <<"r","u","b","y">>, <<"p","h","p">> >>

\* line 777: current.content[0].text?.toLowerCase().trim() || ''
CaptionText(current) == trim(toLowerCase(current.content[1].text))

\* faulty variant of IsLanguageCaption: the text is compared as it is
IsLanguageCaption_AsWritten(content, i) ==
    /\ content[i].type = "paragraph"
    /\ Len(content[i].content) = 1
    /\ content[i].content[1].type = "text"
    /\ i + 1 <= Len(content)
    /\ content[i + 1].type = "codeBlock"
    /\ \E k \in 1..Len(commonLanguages) : commonLanguages[k] = content[i].content[1].text

\* line 771-778: content[i] is a paragraph holding one text node that names a
\* language, and content[i + 1] is a code block
IsLanguageCaption(content, i) ==
    /\ content[i].type = "paragraph"
    /\ Len(content[i].content) = 1
    /\ content[i].content[1].type = "text"
    /\ i + 1 <= Len(content)
    /\ content[i + 1].type = "codeBlock"
    /\ \E k \in 1..Len(commonLanguages) : commonLanguages[k] = CaptionText(content[i])

\* line 782-788: { ...next, attrs: { ...next.attrs, language } }
WithLanguage(next, text) ==
    [next EXCEPT !.attrs.language = IF text = <<"c","#">> THEN <<"c","s","h","a","r","p">> ELSE text]

\* line 736-803: preprocessAdf, and its loop from child i on
RECURSIVE preprocessAdf(_)
RECURSIVE PreprocessFrom(_, _)
PreprocessFrom(content, i) ==
    IF i > Len(content) THEN <<>>
    ELSE IF IsLanguageCaption(content, i)
    THEN <<preprocessAdf(WithLanguage(content[i + 1], CaptionText(content[i])))>>
             \o PreprocessFrom(content, i + 2)
    ELSE <<preprocessAdf(content[i])>> \o PreprocessFrom(content, i + 1)

preprocessAdf(node) ==
    IF node.content = <<>> THEN node
    ELSE [node EXCEPT !.content = PreprocessFrom(node.content, 1)]

\* line 805-813: the message validateInput throws, <<>> when it returns
validateInput(adf) ==
    IF adf.t # "node" /\ (~Truthy(adf) \/ ~IsObject(adf))
    THEN <<"Input must be a valid ADF object">>
    ELSE IF adf.t # "node" \/ adf.type # "doc"
    THEN <<"ADF must have a root \"doc\" node">>
    ELSE <<>>

\* faulty variant of NextAfterEnhance: the language is assigned to the code
\* block of the input, next.attrs.language = ...
NextAfterEnhance_InPlace(next, text) == WithLanguage(next, text)

\* line 782-788: the node `next` of the input after enhancedCodeBlock was built
\* from it; the object spread copies next and next.attrs, and nothing is
\* assigned to either
NextAfterEnhance(next, text) == next

\* line 736-803: the tree given to preprocessAdf after the call.  The call
\* assigns to no property of the nodes it reads: the new content goes to a new
\* array and the result is a new object built by spread.
RECURSIVE InputAfterPreprocess(_)
InputAfterPreprocess(node) ==
    IF node.content = <<>> THEN node
    ELSE [node EXCEPT !.content =
            [i \in 1..Len(node.content) |->
                IF IsLanguageCaption(node.content, i) THEN node.content[i]
                ELSE IF i > 1 /\ IsLanguageCaption(node.content, i - 1)
                THEN InputAfterPreprocess(
                         NextAfterEnhance(node.content[i], CaptionText(node.content[i - 1])))
                ELSE InputAfterPreprocess(node.content[i])]]

\* line 815-837: the value given to convert after the call; convertNode and
\* convertMarks read the preprocessed tree and assign to locals only
InputAfterConvert(adf) ==
    IF validateInput(adf) # <<>> THEN adf ELSE InputAfterPreprocess(adf)

\* line 829-835: the result of a conversion that threw
ConversionFailed(message) == [result |-> <<>>, warnings |-> [error |-> <<message>>]]

\* faulty variant of convert: the error of validateInput is not caught
convert_NoCatch(adf) ==
    IF validateInput(adf) # <<>> THEN [throws |-> validateInput(adf)]
    ELSE CHOOSE r \in
             { IF done.thrown # <<>> THEN ConversionFailed(done.thrown)
               ELSE [result |-> trim(w.md), warnings |-> done.warnings] :
               <<w, done>> \in { <<v, Replay(<<>>, v.events, 1)>> :
                                 v \in {convertNode(preprocessAdf(adf))} } } : TRUE

\* line 815-837
convert(adf) ==
    IF validateInput(adf) # <<>> THEN ConversionFailed(validateInput(adf))
    ELSE CHOOSE r \in
             { IF done.thrown # <<>> THEN ConversionFailed(done.thrown)
               ELSE [result |-> trim(w.md), warnings |-> done.warnings] :
               <<w, done>> \in { <<v, Replay(<<>>, v.events, 1)>> :
                                 v \in {convertNode(preprocessAdf(adf))} } } : TRUE

\* faulty variant of NewWarnings: one warnings object serves every call
NewWarnings_Shared(left) == left

\* line 816: const warnings = {}; `left` is the warnings object of the call
\* before, which the new call has no reference to
NewWarnings(left) == <<>>

\* line 815-837, as a call that follows a call whose warnings object was `left`
convertAfter(left, adf) ==
    IF validateInput(adf) # <<>> THEN ConversionFailed(validateInput(adf))
    ELSE CHOOSE r \in
             { IF done.thrown # <<>> THEN ConversionFailed(done.thrown)
               ELSE [result |-> trim(w.md), warnings |-> done.warnings] :
               <<w, done>> \in { <<v, Replay(NewWarnings(left), v.events, 1)>> :
                                 v \in {convertNode(preprocessAdf(adf))} } } : TRUE

----------------------------------------------------------------------------
(* convert and preprocessAdf applied to one input: a document whose        *)
(* children are up to MaxBlocks consecutive blocks of a sample document,   *)
(* or a value that is not a document.                                      *)

MaxBlocks == 2

Plain(s) == Text(s, <<>>)

Para(s) == Node("paragraph", NoAttrs, <<Plain(s)>>)

Item(blocks) == Node("listItem", NoAttrs, blocks)

Code(language, s) ==
    Node("codeBlock", [NoAttrs EXCEPT !.language = language], <<Plain(s)>>)

Cell(s) == Node("tableCell", NoAttrs, <<Para(s)>>)

Row(cells) == Node("tableRow", NoAttrs, cells)

SampleBlocks ==
    << Node("heading", [NoAttrs EXCEPT !.level = 2], <<Plain(<<"T","i","t","l","e">>)>>),
       Node("paragraph", NoAttrs,
            <<Plain(<<"p","l","a","i","n"," ">>), Text(<<"b","o","l","d">>, <<Mark("strong", <<>>)>>), Plain(<<" ">>),
              Text(<<"i","t">>, <<Mark("em", <<>>)>>), Plain(<<" ">>),
              Text(<<"x">>, <<Mark("code", <<>>)>>)>>),
       Node("paragraph", NoAttrs, <<Text(<<"s","i","t","e">>, <<Mark("link", <<"h","t","t","p",":","/","/","a">>)>>)>>),
       Node("rule", NoAttrs, <<>>),
       Node("bulletList", NoAttrs, <<Item(<<Para(<<"a">>)>>), Item(<<Para(<<"b">>)>>)>>),
       Node("orderedList", NoAttrs, <<Item(<<Para(<<"a">>)>>), Item(<<Para(<<"b">>)>>)>>),
       Node("blockquote", NoAttrs, <<Para(<<"a">>)>>),
       Code(<<"j","s">>, <<"x">>),
       Node("bulletList", NoAttrs,
            <<Item(<<Para(<<"a">>),
                     Node("bulletList", NoAttrs, <<Item(<<Para(<<"b">>)>>)>>)>>)>>),
       Node("blockquote", NoAttrs, <<Para(<<"a">>), Para(<<"b">>)>>),
       Para(<<"p","y","t","h","o","n">>),
       Para(<<" ","B","a","s","h"," ">>),
       Code(<<>>, <<"l","s">>),
       Para(<<"c","#">>),
       Code(<<"j","s">>, <<"x">>),
       Code(<<>>, <<"y">>),
       Node("blockquote", NoAttrs, <<Para(<<"J","S","O","N">>), Code(<<>>, <<"{","}">>), Para(<<"s","q","l">>)>>),
       Node("paragraph", NoAttrs, <<Plain(<<"g","o">>), Plain(<<"x">>)>>),
       Code(<<>>, <<"z">>),
       Para(<<"t","e","x","t">>),
       Code(<<"g","o">>, <<"w">>),
       Node("paragraph", NoAttrs, <<Text(<<"u">>, <<Mark("underline", <<>>)>>)>>),
       Node("paragraph", NoAttrs,
            <<Text(<<"c">>, <<Mark("textColor", <<>>), Mark("strong", <<>>)>>)>>),
       Node("mediaSingle", NoAttrs, <<Node("media", NoAttrs, <<>>)>>),
       Node("panel", NoAttrs, <<Para(<<"a">>), Para(<<"b">>)>>),
       Node("paragraph", NoAttrs, <<Text(<<"s">>, <<Mark("subsup", <<>>)>>)>>),
       Node("mediaSingle", NoAttrs,
            <<Node("media", NoAttrs, <<>>),
              Node("caption", NoAttrs, <<Text(<<"c","a","p">>, <<Mark("underline", <<>>)>>)>>)>>),
       Node("constructor", NoAttrs, <<Para(<<"a">>)>>),
       Node("paragraph", NoAttrs, <<Text(<<"y","a","m","l">>, <<Mark("underline", <<>>)>>)>>),
       Code(<<>>, <<"k">>),
       Node("table", NoAttrs, <<Row(<<Cell(<<"a">>), Cell(<<"b">>)>>)>>),
       Node("table", NoAttrs,
            <<Row(<<Cell(<<"h">>), Cell(<<"i">>), Cell(<<"j">>)>>), Row(<<Cell(<<"a">>), Cell(<<"b">>)>>),
              Row(<<Cell(<<"c">>)>>)>>),
       Node("table", NoAttrs, <<Row(<<Cell(<<"a">>)>>)>>),
       Node("table", NoAttrs, <<Row(<<Cell(<<"a","|","b">>), Cell(<<"c">>)>>)>>),
       Node("table", NoAttrs, <<Row(<<>>)>>),
       Node("table", NoAttrs, <<Para(<<"a">>)>>),
       Node("taskList", NoAttrs,
            <<Node("taskItem", [NoAttrs EXCEPT !.state = <<"D","O","N","E">>], <<Plain(<<"d">>)>>),
              Node("taskItem", [NoAttrs EXCEPT !.state = <<"T","O","D","O">>], <<Plain(<<"t">>)>>)>>),
       Node("inlineCard", [NoAttrs EXCEPT !.url = <<"h","t","t","p",":","/","/","c">>], <<>>),
       Node("error", NoAttrs, <<Para(<<"a">>)>>),
       Node("paragraph", NoAttrs, <<Text(<<"m">>, <<Mark("error", <<>>)>>)>>) >>

Doc(content) == Node("doc", NoAttrs, content)

Documents ==
    { Doc(SubSeq(SampleBlocks, i, i + n - 1)) :
        <<i, n>> \in { w \in (1..Len(SampleBlocks)) \X (0..MaxBlocks) :
                         w[1] + w[2] - 1 <= Len(SampleBlocks) } }

\* inputs that are no document: values that are no object, objects and arrays,
\* nodes of another type
NotDocuments ==
    { JsNull, JsUndef, JsStr(<<"d","o","c">>), JsStr(<<>>), JsNum(0), JsNum(5), JsBool(TRUE),
      JsArr(<<>>), JsObj([content |-> JsArr(<<>>)]), Para(<<"a">>),
      Node("table", NoAttrs, <<>>) }

NoConversion == [result |-> <<>>, warnings |-> <<>>]

InitConvert ==
    /\ fieldMetadataCache = <<>>
    /\ providerCalls = 0
    /\ fetchedOk = <<>>
    /\ last = NoOp
    /\ pc = "input"
    /\ input \in Documents \cup NotDocuments
    /\ run = [pre |-> JsUndef, out |-> NoConversion, back |-> JsUndef]

\* preprocessAdf(adf) on a document
Preprocess ==
    /\ pc = "input"
    /\ validateInput(input) = <<>>
    /\ run' = [run EXCEPT !.pre = preprocessAdf(input)]
    /\ input' = InputAfterPreprocess(input)
    /\ pc' = "preprocessed"
    /\ UNCHANGED cacheVars

\* convert(adf)
Convert ==
    /\ pc = "input"
    /\ run' = [run EXCEPT !.out = convert(input)]
    /\ input' = InputAfterConvert(input)
    /\ pc' = "converted"
    /\ UNCHANGED cacheVars

NextConvert == Preprocess \/ Convert

SpecConvert == InitConvert /\ [][NextConvert]_vars

----------------------------------------------------------------------------
(* Claims about the document to markup converter, checked under SpecConvert *)

IsDocument(adf) == adf.t = "node" /\ adf.type = "doc"

\* C12: convert never throws; for an input that is not an object or whose root
\* type is not 'doc' it returns the empty string as result and a warning set
\* whose only category is 'error', holding one message
C12_InvalidRootIsOneError ==
    pc = "converted" =>
        /\ DOMAIN run.out = {"result", "warnings"}
        /\ ~IsDocument(input) =>
              /\ run.out.result = <<>>
              /\ DOMAIN run.out.warnings = {"error"}
              /\ Len(run.out.warnings["error"]) = 1

\* convert(null) has returned the empty result and the one error message
C12_Witness ==
    /\ pc = "converted"
    /\ input = JsNull
    /\ run.out = ConversionFailed(<<"Input must be a valid ADF object">>)

\* the node and all its descendants
RECURSIVE Nodes(_)
Nodes(node) ==
    {node} \cup UNION { Nodes(node.content[i]) : i \in 1..Len(node.content) }

\* the concatenated text of the text nodes of a tree, first to last
RECURSIVE TextOf(_)
TextOf(node) ==
    IF node.type = "text" THEN node.text
    ELSE Flatten([i \in 1..Len(node.content) |-> TextOf(node.content[i])])

HasMark(node, type) ==
    node.type = "text" /\ \E k \in 1..Len(node.marks) : node.marks[k].type = type

MediaKinds == {"mediaGroup", "mediaSingle", "media"}

KnownKinds ==
    {"doc", "text", "paragraph", "heading", "hardBreak", "inlineCard", "blockCard",
     "embedCard", "blockquote", "codeBlock", "orderedList", "bulletList", "listItem",
     "table", "tableRow", "tableCell", "tableHeader", "rule", "taskList", "taskItem"}
        \cup MediaKinds

Recorded(category, message) ==
    /\ category \in DOMAIN run.out.warnings
    /\ \E k \in 1..Len(run.out.warnings[category]) :
           run.out.warnings[category][k] = message

\* every underline mark, text-color mark, media node and node of unknown kind
\* among the nodes N has its warning in the result
WarningsFor(N) ==
    /\ (\E n \in N : HasMark(n, "underline")) =>
           Recorded("underline", <<"Underline converted to emphasis">>)
    /\ (\E n \in N : HasMark(n, "textColor")) =>
           Recorded("textColor", <<"Text color formatting removed">>)
    /\ (\E n \in N : n.type \in MediaKinds) =>
           Recorded("media", <<"Media attachments converted to placeholder">>)
    /\ \A n \in N : n.type \notin KnownKinds =>
           Recorded(n.type, <<"Unsupported node type: ", n.type>>)

\* the document has an underline mark, a text-color mark, a media node or a
\* node of unknown kind, and its tables are made of rows
HasLossyConstruct(adf) ==
    /\ \E n \in Nodes(adf) :
           \/ HasMark(n, "underline") \/ HasMark(n, "textColor")
           \/ n.type \in MediaKinds \/ n.type \notin KnownKinds
    /\ \A n \in Nodes(adf) :
           n.type = "table" =>
               \A i \in 1..Len(n.content) : n.content[i].type = "tableRow"

\* what the result is when the document is the one block `block`
OneBlockResult(block) ==
    LET texts == block.content
    IN  /\ (block.type = "paragraph" /\ Len(texts) = 1 /\ texts[1].type = "text"
            /\ texts[1].marks = <<Mark("underline", <<>>)>>)
               => run.out.result = <<"*">> \o texts[1].text \o <<"*">>
        /\ (block.type = "paragraph" /\ Len(texts) = 1 /\ texts[1].type = "text"
            /\ texts[1].marks = <<Mark("textColor", <<>>)>>)
               => run.out.result = texts[1].text
        /\ block.type \in MediaKinds => run.out.result = <<"[","M","e","d","i","a"," ","a","t","t","a","c","h","m","e","n","t","]">>
        /\ block.type \notin KnownKinds => run.out.result = TextOf(block)

\* C13 as stated: converting a document that contains an underline mark, a
\* text-color mark, a media node or a node of unknown kind returns a converted
\* (non-error) result with a warning for every such construct present;
\* underlined text is emitted as *italic*, a media node as a placeholder, an
\* unknown node as the concatenated text of its children
C13_LossyConstructsWarn ==
    (pc = "converted" /\ IsDocument(input) /\ HasLossyConstruct(input)) =>
        /\ "error" \notin DOMAIN run.out.warnings
        /\ WarningsFor(Nodes(input))
        /\ Len(input.content) = 1 => OneBlockResult(input.content[1])

\* the nodes the walk visits: the descendants of a media node and the language
\* captions folded into their code block are not among them
RECURSIVE Visited(_)
Visited(node) ==
    IF node.type \in MediaKinds THEN {node}
    ELSE {node} \cup UNION { Visited(node.content[i]) : i \in 1..Len(node.content) }

\* C13 for documents without a node whose kind is the name of an inherited
\* object property or 'error', and for the constructs the walk visits
C13_VisitedOrdinaryKinds ==
    (/\ pc = "converted" /\ IsDocument(input) /\ HasLossyConstruct(input)
     /\ \A n \in Nodes(input) : n.type \notin ObjectPrototypeKeys \cup {"error"}) =>
        /\ "error" \notin DOMAIN run.out.warnings
        /\ WarningsFor(Visited(preprocessAdf(input)))
        /\ Len(input.content) = 1 => OneBlockResult(input.content[1])

\* the lines of a text
Lines(s) == split(s, "\n")

\* a table row of n cells, each holding s
RowOf(n, s) == <<"|">> \o join([i \in 1..n |-> s], <<"|">>) \o <<"|">>

\* the markup of a row of cells: the texts of its cells between bars
RowText(row) ==
    <<"|">> \o join([i \in 1..Len(row.content) |-> TextOf(row.content[i])], <<"|">>)
            \o <<"|">>

\* the document is one table whose children are rows of cells holding plain text
IsPlainTable(adf) ==
    /\ IsDocument(adf)
    /\ Len(adf.content) = 1
    /\ adf.content[1].type = "table"
    /\ adf.content[1].content # <<>>
    /\ \A n \in Nodes(adf) :
          /\ n.type \in {"doc", "table", "tableRow", "tableCell", "paragraph", "text"}
          /\ n.marks = <<>>
    /\ \A i \in 1..Len(adf.content[1].content) :
          /\ adf.content[1].content[i].type = "tableRow"
          /\ \A j \in 1..Len(adf.content[1].content[i].content) :
                 adf.content[1].content[i].content[j].type = "tableCell"

\* the lines of the result for the rows of a table, as the claim gives them
TableLines(rows) ==
    LET n == Len(rows[1].content)
    IN  IF Len(rows) = 1
        THEN <<RowOf(n, <<" ">>), RowOf(n, <<"-","-","-">>), RowText(rows[1])>>
        ELSE <<RowText(rows[1]), RowOf(n, <<"-","-","-">>)>>
                 \o [i \in 1..(Len(rows) - 1) |-> RowText(rows[i + 1])]

\* C14 as stated: a table with exactly one row of n cells converts to three
\* lines, a header row of n blank cells, a separator row of n '---' cells, then
\* the data row; a table with more rows emits its first row, then a separator
\* with as many '---' cells as the first row has cells, then the other rows
C14_TableLines ==
    (pc = "converted" /\ IsPlainTable(input)) =>
        Lines(run.out.result) = TableLines(input.content[1].content)

\* C14 for tables whose first row has a cell and no '|' in the text of a cell
C14_NoBarInFirstRow ==
    (/\ pc = "converted" /\ IsPlainTable(input)
     /\ input.content[1].content[1].content # <<>>
     /\ CountChar(TextOf(input.content[1].content[1]), "|") = 0) =>
        Lines(run.out.result) = TableLines(input.content[1].content)

\* the text names a language of the list, ignoring case and surrounding blanks
NamesLanguage(text) ==
    \E k \in 1..Len(commonLanguages) : EqualIgnoringCase(trim(text), commonLanguages[k])

\* the children of `content` that are language captions: a paragraph whose
\* only child is a text node naming a language, followed by a code block
Captions(content) ==
    { i \in 1..(Len(content) - 1) :
         /\ content[i].type = "paragraph"
         /\ Len(content[i].content) = 1
         /\ content[i].content[1].type = "text"
         /\ NamesLanguage(content[i].content[1].text)
         /\ content[i + 1].type = "codeBlock" }

\* the language a caption gives to its code block
CaptionLanguage(caption) ==
    LET name == toLowerCase(trim(caption.content[1].text))
    IN  IF name = <<"c","#">> THEN <<"c","s","h","a","r","p">> ELSE name

\* the tree with the captions removed at every level, each code block after a
\* caption given the caption's language, every other node kept in order
RECURSIVE Folded(_)
Folded(node) ==
    LET c == node.content
        kept == SelectIdx(Len(c), (1..Len(c)) \ Captions(c))
    IN  [node EXCEPT !.content =
            [r \in 1..Len(kept) |->
                Folded(IF kept[r] - 1 \in Captions(c)
                       THEN [c[kept[r]] EXCEPT
                                !.attrs.language = CaptionLanguage(c[kept[r] - 1])]
                       ELSE c[kept[r]])]]

\* C15: before conversion, at every nesting level, a paragraph whose only child
\* is a text node whose text (trimmed, ignoring case) is in the language list
\* and that is immediately followed by a code block is removed and its language
\* becomes the code block's language attribute ('c#' becomes 'csharp'); every
\* other node is kept, in order, with its content unchanged
C15_CaptionsFoldIntoCodeBlocks ==
    pc = "preprocessed" => run.pre = Folded(input)

\* the caption 'c#' has been folded into the code block that follows it, whose
\* language was js
C15_Witness ==
    /\ pc = "preprocessed"
    /\ input.content = <<Para(<<"c","#">>), Code(<<"j","s">>, <<"x">>)>>
    /\ run.pre = Doc(<<Code(<<"c","s","h","a","r","p">>, <<"x">>)>>)

----------------------------------------------------------------------------
(* The markup to document converter (md-to-adf.ts, imported by the comment  *)
(* and description commands) is not among the sources.  It is modelled from *)
(* its contract: headings of 1-6 levels, paragraphs, bold / italic / inline *)
(* code marks, hyperlinks, ordered and unordered lists, nested ones by      *)
(* indentation, block quotes, fenced code with an optional language tag and *)
(* horizontal rules; syntax that is not recognized stays literal text.      *)

\* pat occurs in s at position i
At(s, i, pat) == i + Len(pat) - 1 <= Len(s) /\ SubSeq(s, i, i + Len(pat) - 1) = pat

\* the least position from `from` on at which pat occurs in s, 0 when none
Find(s, pat, from) ==
    IF \E j \in from..Len(s) : At(s, j, pat)
    THEN CHOOSE j \in from..Len(s) : At(s, j, pat) /\ \A k \in from..(j - 1) : ~At(s, k, pat)
    ELSE 0

\* the inline construct that starts at position i of s, and its length in s
\* (0 when none starts there)
InlineMatch(s, i) ==
    LET strongEnd == IF At(s, i, <<"*","*">>) THEN Find(s, <<"*","*">>, i + 3) ELSE 0
        emEnd == IF At(s, i, <<"*">>) THEN Find(s, <<"*">>, i + 2) ELSE 0
        codeEnd == IF At(s, i, <<BT>>) THEN Find(s, <<BT>>, i + 2) ELSE 0
        mid == IF At(s, i, <<"[">>) THEN Find(s, <<"]","(">>, i + 2) ELSE 0
        close == IF mid > 0 THEN Find(s, <<")">>, mid + 2) ELSE 0
    IN  IF strongEnd > 0
        THEN [len |-> strongEnd + 2 - i,
              node |-> Text(SubSeq(s, i + 2, strongEnd - 1), <<Mark("strong", <<>>)>>)]
        ELSE IF emEnd > 0
        THEN [len |-> emEnd + 1 - i,
              node |-> Text(SubSeq(s, i + 1, emEnd - 1), <<Mark("em", <<>>)>>)]
        ELSE IF codeEnd > 0
        THEN [len |-> codeEnd + 1 - i,
              node |-> Text(SubSeq(s, i + 1, codeEnd - 1), <<Mark("code", <<>>)>>)]
        ELSE IF close > 0
        THEN [len |-> close + 1 - i,
              node |-> Text(SubSeq(s, i + 1, mid - 1),
                            <<Mark("link", SubSeq(s, mid + 2, close - 1))>>)]
        ELSE [len |-> 0, node |-> Text(<<>>, <<>>)]

\* the text node of the literal text read so far, if any
PlainRun(plain) == IF plain = <<>> THEN <<>> ELSE <<Text(plain, <<>>)>>

\* the text nodes of s from position i on; plain is the literal text read so far
RECURSIVE ParseInline(_, _, _)
ParseInline(s, i, plain) ==
    IF i > Len(s) THEN PlainRun(plain)
    ELSE CHOOSE nodes \in
             { IF m.len > 0
               THEN PlainRun(plain) \o <<m.node>> \o ParseInline(s, i + m.len, <<>>)
               ELSE ParseInline(s, i + 1, Append(plain, s[i])) :
               m \in {InlineMatch(s, i)} } : TRUE

IsBlank(line) == trim(line) = <<>>

\* the number of characters c the line begins with
LeadingCount(line, c) ==
    Cardinality({k \in 1..Len(line) : \A j \in 1..k : line[j] = c})

\* the level of a heading line (1-6 '#' and a blank), 0 for any other line
HeadingLevel(line) ==
    LET n == LeadingCount(line, "#")
    IN  IF n \in 1..6 /\ At(line, n + 1, <<" ">>) THEN n ELSE 0

IsRule(line) == trim(line) = <<"-","-","-">>

IsFence(line) == At(line, 1, <<BT, BT, BT>>)

IsQuote(line) == At(line, 1, <<">">>)

\* the length of the list marker the line begins with ('- ' or digits, '.' and
\* a blank), 0 when it begins with none
ItemPrefix(line) ==
    LET d == Cardinality({k \in 1..Len(line) : \A j \in 1..k : IsDigit(line[j])})
    IN  IF At(line, 1, <<"-"," ">>) THEN 2
        ELSE IF d > 0 /\ At(line, d + 1, <<"."," ">>) THEN d + 2
        ELSE 0

ListKind(line) == IF At(line, 1, <<"-"," ">>) THEN "bulletList" ELSE "orderedList"

StartsBlock(line) ==
    \/ IsFence(line) \/ HeadingLevel(line) > 0 \/ IsRule(line)
    \/ IsQuote(line) \/ ItemPrefix(line) > 0

\* the last line of the run of lines satisfying P that starts at line i
RunEnd(L, i, P(_)) ==
    CHOOSE e \in i..Len(L) :
        /\ \A j \in (i + 1)..e : P(L[j])
        /\ e = Len(L) \/ ~P(L[e + 1])
        /\ \A f \in i..(e - 1) : P(L[f + 1])

\* the last line of the block that starts at the line i (which is not blank)
BlockEnd(L, i) ==
    LET SameList(line) ==
            \/ ItemPrefix(line) > 0 /\ ListKind(line) = ListKind(L[i])
            \/ At(line, 1, <<" "," ">>) /\ ~IsBlank(line)
        InParagraph(line) == ~IsBlank(line) /\ ~StartsBlock(line)
        fence == Find([j \in 1..Len(L) |-> IF IsFence(L[j]) THEN "f" ELSE "-"], <<"f">>, i + 1)
    IN  IF IsFence(L[i]) THEN (IF fence = 0 THEN Len(L) ELSE fence)
        ELSE IF HeadingLevel(L[i]) > 0 \/ IsRule(L[i]) THEN i
        ELSE IF IsQuote(L[i]) THEN RunEnd(L, i, IsQuote)
        ELSE IF ItemPrefix(L[i]) > 0 THEN RunEnd(L, i, SameList)
        ELSE RunEnd(L, i, InParagraph)

\* a line without its first n characters, as far as these are blanks
Unindent(line, n) == SubSeq(line, Min(n, LeadingCount(line, " ")) + 1, Len(line))

\* a quoted line without its '>' and the blank after it
Unquote(line) == Unindent(Tail(line), 1)

\* the lines of the list items of the lines i..e: an item is the line with the
\* marker, without the marker, and the indented lines after it, unindented
ItemLines(L, i, e) ==
    LET starts == SelectIdx(e, {j \in i..e : ItemPrefix(L[j]) > 0})
    IN  [r \in 1..Len(starts) |->
            LET j == starts[r]
                stop == IF r < Len(starts) THEN starts[r + 1] - 1 ELSE e
                n == ItemPrefix(L[j])
            IN  <<SubSeq(L[j], n + 1, Len(L[j]))>>
                    \o [k \in 1..(stop - j) |-> Unindent(L[j + k], n)]]

\* the blocks of the lines from line i on
RECURSIVE ParseBlocks(_, _)
RECURSIVE ParseBlock(_, _, _)
ParseBlocks(L, i) ==
    IF i > Len(L) THEN <<>>
    ELSE IF IsBlank(L[i]) THEN ParseBlocks(L, i + 1)
    ELSE CHOOSE blocks \in
             { <<ParseBlock(L, i, e)>> \o ParseBlocks(L, e + 1) : e \in {BlockEnd(L, i)} } : TRUE

\* the block made of the lines i..e
ParseBlock(L, i, e) ==
    IF IsFence(L[i])
    THEN LET lastLine == IF IsFence(L[e]) /\ e > i THEN e - 1 ELSE e
         IN  Code(SubSeq(L[i], 4, Len(L[i])), join(SubSeq(L, i + 1, lastLine), <<"\n">>))
    ELSE IF HeadingLevel(L[i]) > 0
    THEN Node("heading", [NoAttrs EXCEPT !.level = HeadingLevel(L[i])],
              ParseInline(SubSeq(L[i], HeadingLevel(L[i]) + 2, Len(L[i])), 1, <<>>))
    ELSE IF IsRule(L[i]) THEN Node("rule", NoAttrs, <<>>)
    ELSE IF IsQuote(L[i])
    THEN Node("blockquote", NoAttrs,
              ParseBlocks([k \in 1..(e - i + 1) |-> Unquote(L[i + k - 1])], 1))
    ELSE IF ItemPrefix(L[i]) > 0
    THEN Node(ListKind(L[i]), NoAttrs,
              [r \in 1..Len(ItemLines(L, i, e)) |->
                  Item(ParseBlocks(ItemLines(L, i, e)[r], 1))])
    ELSE Node("paragraph", NoAttrs, ParseInline(join(SubSeq(L, i, e), <<"\n">>), 1, <<>>))

\* Markup to Document: the document of a markup text
markdownToAdf(markdown) == Doc(ParseBlocks(Lines(markdown), 1))

\* parsing the markup a conversion returned
ParseBack ==
    /\ pc = "converted"
    /\ IsDocument(input)
    /\ "error" \notin DOMAIN run.out.warnings
    /\ run' = [run EXCEPT !.back = markdownToAdf(run.out.result)]
    /\ pc' = "parsedBack"
    /\ UNCHANGED <<cacheVars, input>>

NextRoundTrip == Convert \/ ParseBack

SpecRoundTrip == InitConvert /\ [][NextRoundTrip]_vars

----------------------------------------------------------------------------
(* The round trip, checked under SpecRoundTrip                              *)

RoundTripKinds ==
    {"doc", "heading", "paragraph", "bulletList", "orderedList", "listItem",
     "blockquote", "rule"}

RoundTripMarks == {"strong", "em", "code", "link"}

\* the tree is built only from headings, paragraphs, bold / italic / code
\* marks, links, lists, block quotes, fenced code with a language, and rules
RECURSIVE ExactConstructs(_)
ExactConstructs(node) ==
    IF node.type = "text"
    THEN \A k \in 1..Len(node.marks) : node.marks[k].type \in RoundTripMarks
    ELSE IF node.type = "codeBlock"
    THEN node.attrs.language # <<>> /\ \A k \in 1..Len(node.content) : node.content[k].type = "text"
    ELSE /\ node.type \in RoundTripKinds
         /\ \A k \in 1..Len(node.content) : ExactConstructs(node.content[k])

\* a text without its white space
NoSpace(s) == SelectSeq(s, LAMBDA c : ~IsSpace(c))

\* neighbouring text nodes with the same marks made one text node
RECURSIVE MergeTexts(_)
MergeTexts(nodes) ==
    IF Len(nodes) <= 1 THEN nodes
    ELSE IF /\ nodes[1].type = "text" /\ nodes[2].type = "text"
            /\ nodes[1].marks = nodes[2].marks
    THEN MergeTexts(<<[nodes[1] EXCEPT !.text = nodes[1].text \o nodes[2].text]>>
                        \o SubSeq(nodes, 3, Len(nodes)))
    ELSE <<nodes[1]>> \o MergeTexts(Tail(nodes))

\* a tree modulo white space: the texts without white space, no empty text
\* node, and no border between text nodes that carry the same marks
RECURSIVE ModuloWhitespace(_)
ModuloWhitespace(node) ==
    IF node.type = "text" THEN [node EXCEPT !.text = NoSpace(node.text)]
    ELSE [node EXCEPT !.content =
            MergeTexts(SelectSeq([k \in 1..Len(node.content) |-> ModuloWhitespace(node.content[k])],
                                 LAMBDA n : n.type # "text" \/ n.text # <<>>))]

\* C16: for a document built only from headings, paragraphs, bold / italic /
\* code marks, links, ordered and unordered lists (nested ones too), block
\* quotes (with several paragraphs too), fenced code with a language, and rules,
\* the markup of the document parses back to the document, modulo white space
C16_RoundTrip ==
    pc = "parsedBack" /\ ExactConstructs(input)
        => ModuloWhitespace(run.back) = ModuloWhitespace(input)

\* a list inside a list item, a block quote of more than one block, or a
\* language caption in front of a code block
LosesStructure(adf) ==
    \E node \in Nodes(adf) :
        \/ /\ node.type = "listItem"
           /\ \E k \in 1..Len(node.content) : node.content[k].type \in {"bulletList", "orderedList"}
        \/ node.type = "blockquote" /\ Len(node.content) > 1
        \/ Captions(node.content) # {}

\* the round trip of the documents with none of these
C16_RoundTripOfFlatDocuments ==
    pc = "parsedBack" /\ ExactConstructs(input) /\ ~LosesStructure(input)
        => ModuloWhitespace(run.back) = ModuloWhitespace(input)

\* the list with a nested list and the list of the same two items without
\* nesting have one markup
C16_NestingIsNotWritten ==
    convert(Doc(<<SampleBlocks[9]>>)).result = convert(Doc(<<SampleBlocks[5]>>)).result

----------------------------------------------------------------------------
(* The result of a failed validation, checked under SpecValue *)

\* the allowed values of `allowed`, by index, a failed validation of the compared
\* value cv may suggest: those whose display value (value token, else name) lies
\* within max(3, ceil(length / 2)) edits of cv, ignoring case
NearValues(cv, allowed) ==
    { k \in 1..Len(allowed) :
        levenshteinDistance(toLowerCase(cv), toLowerCase(TokenOrName(allowed[k])))
            <= Max(3, CeilHalf(Len(cv))) }

\* sug lists the display values of the allowed values idx, which are different
\* near values, closest first, and no near value left out is closer than a
\* listed one; fewer than 3 are listed only when there are no more
ClosestFirst(sug, idx, cv, allowed) ==
    LET dist(k) == levenshteinDistance(toLowerCase(cv), toLowerCase(TokenOrName(allowed[k])))
    IN  /\ Len(idx) = Len(sug)
        /\ \A q \in 1..Len(idx) :
              /\ idx[q] \in NearValues(cv, allowed)
              /\ sug[q] = TokenOrName(allowed[idx[q]])
        /\ \A q, r \in 1..Len(idx) : q < r => idx[q] # idx[r] /\ dist(idx[q]) <= dist(idx[r])
        /\ \A k \in NearValues(cv, allowed) \ Range(idx) :
              /\ Len(idx) = 3
              /\ \A q \in 1..Len(idx) : dist(idx[q]) <= dist(k)

\* C21: when validateFieldValue finds no match, its result has valid = false,
\* an error, the field's full list of allowed values, and as suggestions at most
\* 3 allowed display values (value token, else name) within
\* max(3, ceil(length * 0.5)) edits of the compared value, closest first
C21_NoMatchResult ==
    pc \in {"validated", "formattedValidated"} /\ ~run.validation.valid =>
        LET allowed == input.field.metadata.allowedValues
            sug == run.validation.suggestions
        IN  /\ run.validation.error # <<>>
            /\ run.validation.allowedValues = allowed
            /\ allowed # <<>>
            /\ \A k \in 1..Len(allowed) :
                  ~EqualIgnoringCase(allowed[k].name, Unwrapped(Validated))
            /\ Len(sug) <= 3
            /\ \E idx \in Seqs(1..Len(allowed), 3) :
                  ClosestFirst(sug, idx, Unwrapped(Validated), allowed)

\* 'Golf' is not a build: the failure suggests Gold, one edit away, before
\* Core, three edits away, though Core is the earlier allowed value
C21_Witness ==
    /\ pc = "validated"
    /\ input.value = JsStr(<<"G","o","l","f">>)
    /\ input.field.metadata.allowedValues = BuildsAllowed
    /\ ~run.validation.valid
    /\ run.validation.suggestions = <<Gold, Core>>

----------------------------------------------------------------------------
(* Successive calls of convert: each call converts one of a few inputs; the *)
(* warnings object of a call stays behind when the call returns.            *)

MaxConvertCalls == 2

CallInputs ==
    { Doc(<<SampleBlocks[i]>>) : i \in {1, 22, 23, 24, 25, 26, 28, 36} }
        \cup { Doc(<<SampleBlocks[22], SampleBlocks[29]>>),
               Doc(<<SampleBlocks[25], SampleBlocks[22], SampleBlocks[25]>>),
               JsNull, Para(<<"a">>) }

InitCalls ==
    /\ fieldMetadataCache = <<>>
    /\ providerCalls = 0
    /\ fetchedOk = <<>>
    /\ last = NoOp
    /\ pc = "calls"
    /\ input = JsUndef
    /\ run = [calls |-> <<>>, left |-> <<>>]

\* one more call: convert(adf)
ConvertCall ==
    /\ pc = "calls"
    /\ Len(run.calls) < MaxConvertCalls
    /\ \E adf \in CallInputs :
          \E out \in {convertAfter(run.left, adf)} :
              /\ input' = adf
              /\ run' = [calls |-> Append(run.calls, [adf |-> adf, out |-> out]),
                         left |-> out.warnings]
    /\ UNCHANGED <<cacheVars, pc>>

NextCalls == ConvertCall

SpecCalls == InitCalls /\ [][NextCalls]_vars

\* C22: convert keeps no state between calls: each call returns what a call with
\* no call before it returns for the same tree, so converting a tree twice
\* gives the same result and the same warnings, and no warning of another call
\* shows up; within one call a category lists each message once
C22_CallsAreIndependent ==
    pc = "calls" =>
        \A j \in 1..Len(run.calls) :
            /\ run.calls[j].out = convert(run.calls[j].adf)
            /\ \A i \in 1..(j - 1) :
                  run.calls[i].adf = run.calls[j].adf => run.calls[i].out = run.calls[j].out
            /\ \A c \in DOMAIN run.calls[j].out.warnings :
                  IsDistinct(run.calls[j].out.warnings[c])

\* a tree with a panel, underlined text and another panel was converted, with
\* one warning for the panels and one for the underline, and the heading
\* converted after it has no warning
C22_Witness ==
    /\ pc = "calls"
    /\ Len(run.calls) = 2
    /\ run.calls[1].adf = Doc(<<SampleBlocks[25], SampleBlocks[22], SampleBlocks[25]>>)
    /\ DOMAIN run.calls[1].out.warnings = {"panel", "underline"}
    /\ Len(run.calls[1].out.warnings["panel"]) = 1
    /\ run.calls[2].adf = Doc(<<SampleBlocks[1]>>)
    /\ run.calls[2].out.warnings = <<>>
    /\ run.calls[2].out.result # <<>>

----------------------------------------------------------------------------
(* Failures of several fields of one batch, checked under SpecPipeline *)

\* the stage at which pair i of the batch fails: its name does not resolve, its
\* value does not format, or the formatted value is not an allowed one
FailStage(i) ==
    LET pair == run.fieldPairs[i]
        res == run.batch.results[i].result
    IN  IF ~res.success THEN "resolution"
        ELSE CHOOSE stage \in
                 { IF ~f.success THEN "formatting"
                   ELSE IF ~validateFieldValue(res.resolved, f.formattedValue).valid
                   THEN "validation"
                   ELSE "none" :
                   f \in {formatFieldValue(res.resolved, pair.value)} } : TRUE

\* the run wrote an error for pair i: a line for its name at the resolution or
\* the formatting stage, the line of its validation error at the validation stage
Reported(i) ==
    LET name == run.fieldPairs[i].name
        out == run.outcome
    IN  IF out.stage \in {"resolution", "formatting"}
        THEN \E k \in 1..Len(out.stderr) : out.stderr[k].name = name
        ELSE /\ out.stage = "validation"
             /\ MapHas(out.results, name)
             /\ ~MapGet(out.results, name).valid
             /\ \E k \in 1..Len(out.stderr) :
                   out.stderr[k] = <<"Error: ">> \o MapGet(out.results, name).error

\* C23: when several fields of a batch fail, at one stage or at different
\* stages, the run reports the failure of every failing field
C23_EveryFailureReported ==
    pc = "exited" /\ IsDistinct(input.fieldNames) =>
        \A i \in 1..Len(run.fieldPairs) : FailStage(i) # "none" => Reported(i)

\* what the run does report: it stops at the first stage at which a field
\* fails, and reports the fields that fail at that stage and no other field
C23_FailuresOfFirstFailingStage ==
    pc = "exited" /\ IsDistinct(input.fieldNames) =>
        LET stages == {FailStage(i) : i \in 1..Len(run.fieldPairs)}
            first == IF "resolution" \in stages THEN "resolution"
                     ELSE IF "formatting" \in stages THEN "formatting"
                     ELSE "validation"
        IN  /\ run.outcome.stage = first
            /\ first \in stages
            /\ \A i \in 1..Len(run.fieldPairs) : Reported(i) <=> FailStage(i) = first

----------------------------------------------------------------------------
(* Fields without a schema entry, checked under SpecValue *)

\* the field was accepted as an internal identifier and no schema entry was
\* attached to it
Unattached(field) ==
    /\ field.type = TUnknown
    /\ field.metadata.schema.type = TUnknown
    /\ field.key = field.originalName

\* the keys formatFieldValue formats whatever the schema type is
KeysFormattedByKey ==
    { Priority, <<"r","e","s","o","l","u","t","i","o","n">>, <<"f","i","x","V","e","r","s","i","o","n","s">>, <<"v","e","r","s","i","o","n","s">>, <<"c","o","m","p","o","n","e","n","t","s">> }

\* C24 as stated: a field accepted as an internal identifier without a schema
\* entry is passed through by formatFieldValue, whatever its name, built-in
\* names included: the formatted value is the raw value
C24_UnattachedPassesThrough ==
    pc = "formatted" /\ Unattached(input.field) =>
        run.format.success /\ run.format.formattedValue = input.value

\* C24 amended: such a field is passed through unless its key is priority,
\* resolution, fixVersions, versions or components; under these keys a value
\* that is not already a wrapper object is wrapped as {name: String(value)}
C24_UnattachedPassesThroughUnlessKeyed ==
    pc = "formatted" /\ Unattached(input.field) =>
        /\ run.format.success
        /\ run.format.originalValue = input.value
        /\ IF input.field.key \in KeysFormattedByKey /\ ~IsWrapper(input.value)
           THEN run.format.formattedValue = JsObj([name |-> JsStr(ToStr(input.value))])
           ELSE run.format.formattedValue = input.value

\* the value 'High' of the field priority, which has no schema entry, was
\* wrapped as {name: 'High'}
C24_Witness ==
    /\ pc = "formatted"
    /\ Unattached(input.field)
    /\ input.value = JsStr(High)
    /\ input.field.key = Priority
    /\ run.format.formattedValue = JsObj([name |-> JsStr(High)])

----------------------------------------------------------------------------
(* The dispatch on the custom type identifier, checked under SpecValue *)

\* the field has a custom type identifier and a schema type that
\* formatFieldValue has no branch for
DispatchedByCustomType(field) ==
    /\ field.metadata.schema.custom # <<>>
    /\ field.metadata.schema.type = <<"a","n","y">>
    /\ field.key \notin KeysFormattedByKey

\* C25: for a field whose schema type is none of the directly handled types, an
\* identifier containing 'multiselect', 'multicheckboxes' or 'multiuserpicker'
\* is formatted as an array, one containing 'cascadingselect' is passed through
\* unchanged, one containing 'select' or 'radiobuttons' is formatted as a single
\* option, and one containing 'userpicker' as a single user reference
C25_DispatchAsDocumented ==
    pc = "formatted" /\ DispatchedByCustomType(input.field) =>
        LET custom == input.field.metadata.schema.custom
            has(kind) == includes(custom, kind)
        IN  run.format =
               (IF has(<<"m","u","l","t","i","s","e","l","e","c","t">>) \/ has(<<"m","u","l","t","i","c","h","e","c","k","b","o","x","e","s">>) \/ has(<<"m","u","l","t","i","u","s","e","r","p","i","c","k","e","r">>)
                THEN formatArrayValue(input.value, input.field)
                ELSE IF has(<<"c","a","s","c","a","d","i","n","g","s","e","l","e","c","t">>)
                THEN FormatOk(input.value, input.value, <<"cascading select (pass-through)">>)
                ELSE IF has(<<"s","e","l","e","c","t">>) \/ has(<<"r","a","d","i","o","b","u","t","t","o","n","s">>)
                THEN formatOptionValue(input.value, input.field)
                ELSE IF has(<<"u","s","e","r","p","i","c","k","e","r">>)
                THEN formatUserValue(input.value, input.field)
                ELSE FormatOk(input.value, input.value, <<"pass-through (text/string)">>))

\* the dispatch as it runs: 'select' and 'radiobuttons' are tested first and
\* take 'multiselect' and 'cascadingselect' with them, 'userpicker' is tested
\* before 'multiuserpicker' and takes it
C25_DispatchAsOrdered ==
    pc = "formatted" /\ DispatchedByCustomType(input.field) =>
        LET custom == input.field.metadata.schema.custom
            has(kind) == includes(custom, kind)
        IN  run.format =
               (IF has(<<"s","e","l","e","c","t">>) \/ has(<<"r","a","d","i","o","b","u","t","t","o","n","s">>)
                THEN formatOptionValue(input.value, input.field)
                ELSE IF has(<<"m","u","l","t","i","c","h","e","c","k","b","o","x","e","s">>)
                THEN formatArrayValue(input.value, input.field)
                ELSE IF has(<<"u","s","e","r","p","i","c","k","e","r">>)
                THEN formatUserValue(input.value, input.field)
                ELSE FormatOk(input.value, input.value, <<"pass-through (text/string)">>))

----------------------------------------------------------------------------
(* Formatting followed by validation, checked under SpecValue *)

\* the raw input names allowed values of the field by name or value token,
\* ignoring case: one allowed value, or for a field formatted as a list, one
\* allowed value by each piece of a comma-separated string
NamesAllowedValues(field, value) ==
    LET allowed == field.metadata.allowedValues
    IN  /\ allowed # <<>>
        /\ value.t = "str"
        /\ \/ NamedBy(allowed, value.s) # {}
           \/ /\ field.metadata.schema.type = TArray
              /\ RemainingPieces(value.s) # <<>>
              /\ \A k \in 1..Len(RemainingPieces(value.s)) :
                    NamedBy(allowed, RemainingPieces(value.s)[k]) # {}

\* C26: for a field with allowed values and a raw input that names allowed
\* values, the value formatFieldValue produces is accepted by
\* validateFieldValue: single options, priorities and lists alike
C26_FormattedValueIsValid ==
    NamesAllowedValues(input.field, input.value) =>
        /\ pc = "formatted" => run.format.success
        /\ pc = "formattedValidated" => run.validation.valid

\* what holds: a formatted value with a value, a name or an id is accepted; a
\* formatted list and a user reference {accountId} are compared as the empty
\* string and rejected whenever every allowed value of the field has a name
C26_SingleValuesAgreeListsFail ==
    pc = "formattedValidated" /\ NamesAllowedValues(input.field, input.value) =>
        IF \/ run.format.formattedValue.t = "arr"
           \/ HasProp(run.format.formattedValue, "accountId")
        THEN (\A k \in 1..Len(input.field.metadata.allowedValues) :
                  input.field.metadata.allowedValues[k].name # <<>>)
                 => /\ ~run.validation.valid
                    /\ run.validation.error
                           = <<"Invalid value \"", "\" for field \"">> \o input.field.displayName \o <<"\"">>
        ELSE run.validation.valid

----------------------------------------------------------------------------
(* The category 'error', checked under SpecConvert *)

\* the conversion of adf threw: validateInput did, or the walk did
Threw(adf) ==
    \/ validateInput(adf) # <<>>
    \/ Replay(<<>>, convertNode(preprocessAdf(adf)).events, 1).thrown # <<>>

\* C27: the warning set returned by convert has the category 'error' if and only
\* if the conversion failed totally, and then the result is the empty string; a
\* document that converts has no category 'error', whatever kinds of nodes and
\* marks it contains
C27_ErrorIffFailed ==
    pc = "converted" =>
        /\ "error" \in DOMAIN run.out.warnings <=> Threw(input)
        /\ "error" \in DOMAIN run.out.warnings => run.out.result = <<>>

\* a node or a mark of the kind 'error'
HasErrorKind(adf) ==
    adf.t = "node" /\
        \E node \in Nodes(adf) :
            node.type = "error" \/ \E k \in 1..Len(node.marks) : node.marks[k].type = "error"

\* the same for documents without a node or a mark of the kind 'error'
C27_ErrorIffFailedWithoutErrorKind ==
    pc = "converted" /\ ~HasErrorKind(input) =>
        /\ "error" \in DOMAIN run.out.warnings <=> Threw(input)
        /\ "error" \in DOMAIN run.out.warnings => run.out.result = <<>>

----------------------------------------------------------------------------
(* validateFieldValues applied to a list of name/value pairs, with the      *)
(* fields Severity and Priority resolved and the name Qq not resolved.      *)

MaxPairs == 2

\* the resolved fields, by the name they were asked for
BatchResolved ==
    [ name \in {Severity, PriorityName} |->
        CHOOSE f \in ResolvedFields :
            /\ f.displayName = name
            /\ f.type = (IF name = Severity THEN TOption ELSE Priority)
            /\ f.metadata.schema.custom = <<>> ]

BatchPairs ==
    { [name |-> name, value |-> JsStr(s)] :
        name \in {Severity, PriorityName, Qq}, s \in {High, Bad, <<"G","o","l","f">>, Low} }

NoBatchValidation == [valid |-> FALSE, results |-> <<>>, text |-> <<>>]

InitBatch ==
    /\ fieldMetadataCache = <<>>
    /\ providerCalls = 0
    /\ fetchedOk = <<>>
    /\ last = NoOp
    /\ pc = "pairs"
    /\ \E fieldPairs \in Seqs(BatchPairs, MaxPairs) :
           input = [resolvedFields |-> BatchResolved, fieldPairs |-> fieldPairs]
    /\ run = NoBatchValidation

\* validateFieldValues(resolvedFields, fieldPairs), then
\* formatValidationErrors(results)
ValidateBatch ==
    /\ pc = "pairs"
    /\ \E v \in {validateFieldValues(input.resolvedFields, input.fieldPairs)} :
           run' = [valid |-> v.valid, results |-> v.results,
                   text |-> formatValidationErrors(v.results)]
    /\ pc' = "batchValidated"
    /\ UNCHANGED <<cacheVars, input>>

NextBatch == ValidateBatch

SpecBatch == InitBatch /\ [][NextBatch]_vars

\* C28: validateFieldValues returns valid = true exactly when every entry of its
\* results map is valid, for any list of pairs, lists that repeat a name
\* included; a pair whose name has no resolved field gets a valid entry and does
\* not affect the verdict
C28_ValidIffEveryEntryValid ==
    pc = "batchValidated" =>
        /\ run.valid <=> \A k \in 1..Len(run.results) : run.results[k].val.valid
        /\ \A i \in 1..Len(input.fieldPairs) :
              input.fieldPairs[i].name \notin DOMAIN input.resolvedFields =>
                  /\ MapHas(run.results, input.fieldPairs[i].name)
                  /\ MapGet(run.results, input.fieldPairs[i].name).valid

\* what holds: the verdict is about the pairs, valid = true exactly when every
\* pair with a resolved name has an allowed value, while the results map keeps,
\* for each name, the result of the last pair of that name only
C28_ValidIffEveryPairValid ==
    pc = "batchValidated" =>
        LET pairs == input.fieldPairs
            PairValid(i) ==
                pairs[i].name \in DOMAIN input.resolvedFields =>
                    validateFieldValue(input.resolvedFields[pairs[i].name], pairs[i].value).valid
        IN  /\ run.valid <=> \A i \in 1..Len(pairs) : PairValid(i)
            /\ \A i \in 1..Len(pairs) :
                  (\A j \in (i + 1)..Len(pairs) : pairs[j].name # pairs[i].name) =>
                      /\ MapHas(run.results, pairs[i].name)
                      /\ MapGet(run.results, pairs[i].name).valid = PairValid(i)
            /\ IsDistinct([i \in 1..Len(pairs) |-> pairs[i].name]) =>
                  (run.valid <=> \A k \in 1..Len(run.results) : run.results[k].val.valid)

----------------------------------------------------------------------------
(* Cache entries and pairs, checked under SpecCache *)

\* C29: two different (project key, issue type) pairs never share a cache entry:
\* a fetch answered without the provider returns the field map that a fetch of
\* the same pair stored, for any strings as project key and issue type, strings
\* with ':' included
C29_NoSharedCacheEntry ==
    last.op = "fetch" /\ ~last.invoked =>
        /\ last.wasFetched
        /\ last.fields = last.prior

\* the same for the fetches whose project key and issue type contain no ':'
C29_NoSharedCacheEntryWithoutColon ==
    (/\ last.op = "fetch" /\ ~last.invoked
     /\ indexOf(last.projectKey, ":") = -1
     /\ indexOf(last.issueType, ":") = -1) =>
        /\ last.wasFetched
        /\ last.fields = last.prior

----------------------------------------------------------------------------
(* The tree given to convert, checked under SpecConvert *)

\* C30: convert does not modify the tree it is given: after the call the input
\* tree is equal to what it was before, the code block that had a language
\* folded into it and the language paragraph dropped from the output included
\* (and preprocessAdf alone leaves it the same way)
C30_InputNotModified ==
    [][pc = "input" /\ pc' \in {"converted", "preprocessed"} => input' = input]_vars

\* the caption 'c#' and the code block tagged js were converted to one csharp
\* block, and the tree still has the caption and the tag js
C30_Witness ==
    /\ pc = "converted"
    /\ input = Doc(<<Para(<<"c","#">>), Code(<<"j","s">>, <<"x">>)>>)
    /\ run.out.result = <<BT, BT, BT>> \o <<"c","s","h","a","r","p">> \o <<"\n", "x", "\n", BT, BT, BT>>
    /\ run.out.warnings = <<>>

====
